---- MODULE Spec2Model ----
(***************************************************************************)
(* The durable ring-buffered record log of src/src/info/info_storage.rs    *)
(* (InfoStorage): a fixed-capacity FIFO of 16-byte records in a data file, *)
(* two redundant metadata copies in a metadata file, and the two-tier      *)
(* recovery run by InfoStorage::new and InfoStorage::recover.              *)
(*                                                                         *)
(* The media are modelled field by field: a data slot is the record of the *)
(* fields of its 16 bytes, a metadata copy the record of the fields of its *)
(* 24 bytes, and the checksum stored in either is the CRC-16/CCITT of the  *)
(* bytes before it, computed as crc16_ccitt computes it.                   *)
(***************************************************************************)
EXTENDS Integers, Sequences, FiniteSets, TLC

VARIABLES
    phase,      \* "Ready": an InfoStorage value exists; "Down": none (closed or crashed)
    state,      \* InfoStorage.state: the in-memory StorageState
    data_file,  \* the data file: slot index -> the fields of its 16 bytes
    meta_file,  \* the metadata file: copy index -> the fields of its 24 bytes
    last,       \* the last call made on the engine and what it returned
    live,       \* reference FIFO: the slots enqueued and not since removed
    incidents   \* power losses and I/O faults so far

vars == <<phase, state, data_file, meta_file, last, live, incidents>>

----------------------------------------------------------------------------
(* Program constants and the bounds of the model.                          *)

\* The ring of the source holds 300 slots; the ring of the model holds
\* STORAGE_CAPACITY.
STORAGE_CAPACITY == 3
RECORD_MAGIC == 18770
META_MAGIC == 1296389185
META_VERSION == 1
META_COPIES == 2
U16 == 65536
I32_MAX == 2147483647

\* Timestamps handed to enqueue and to the queries are 1..MaxTs.
MaxTs == 2
\* No mutating call starts once generation has reached MaxGen.
MaxGen == 5

\* CircularQueue<T, N> is taken with N in 1..MaxN and values in 1..MaxValue.
MaxN == 3
MaxValue == 2
\* Temperatures handed to enqueue are 0..MaxTemp (raw tenths).
MaxTemp == 1
\* At most MaxIncidents power losses and I/O faults in a run.
MaxIncidents == 1
\* An aged store starts WrapLead sequence numbers before next_seq wraps.
WrapLead == 2

Indices == 0..(STORAGE_CAPACITY - 1)
Timestamps == 1..MaxTs

\* A u32 (next_seq, seq, generation) is held as the integer its 32 bits
\* denote in two's complement, the model checker's integers being 32 bits
\* wide: 0..2^31-1 as themselves, 2^31..2^32-1 as -2^31..-1.  So 2^32-1 is
\* -1, wrapping_add(1) is +1 except at 2^31-1, and the unsigned order is
\* ULt.
wrapping_add1(x) == IF x = I32_MAX THEN (-I32_MAX) - 1 ELSE x + 1

ULt(a, b) == IF (a < 0) = (b < 0) THEN a < b ELSE b < 0

\* The values a generation and a sequence number take within the bounds.
GenDom == 0..(MaxGen + 1)
SeqDom == (-WrapLead)..(MaxGen + 2)

----------------------------------------------------------------------------
(* crc16_ccitt: polynomial 0x1021, initial value 0xFFFF, MSB first.        *)

RECURSIVE BitXor(_, _, _)
BitXor(a, b, n) ==
    IF n = 0 THEN 0
    ELSE (((a % 2) + (b % 2)) % 2) + 2 * BitXor(a \div 2, b \div 2, n - 1)

XorNibble == [a \in 0..15, b \in 0..15 |-> BitXor(a, b, 4)] @@ <<>>

Xor16(a, b) ==
    XorNibble[a % 16, b % 16]
    + 16 * XorNibble[(a \div 16) % 16, (b \div 16) % 16]
    + 256 * XorNibble[(a \div 256) % 16, (b \div 256) % 16]
    + 4096 * XorNibble[(a \div 4096) % 16, (b \div 4096) % 16]

\* The inner loop: eight times, shift left and xor the polynomial in when
\* the top bit was set.
RECURSIVE CrcShift(_, _)
CrcShift(crc, n) ==
    IF n = 0 THEN crc
    ELSE CrcShift(IF crc >= 32768 THEN Xor16((crc * 2) % U16, 4129)
                  ELSE (crc * 2) % U16, n - 1)

\* The inner loop's effect on a crc whose low byte is zero, per high byte
\* (the loop is linear over xor, so crc ^= byte << 8 followed by the eight
\* shifts is (crc << 8) ^ CrcByte[(crc >> 8) ^ byte]).
CrcByte == [b \in 0..255 |-> CrcShift(b * 256, 8)] @@ <<>>

RECURSIVE CrcFrom(_, _, _)
CrcFrom(crc, data, i) ==
    IF i > Len(data) THEN crc
    ELSE CrcFrom(Xor16((crc * 256) % U16, CrcByte[Xor16(crc \div 256, data[i])]),
                 data, i + 1)

crc16_ccitt(data) == CrcFrom(65535, data, 1)

\* to_le_bytes of an n-byte unsigned integer (\div rounds down and % is
\* never negative, so a u32 held as above yields its own bytes).
LeBytes(v, n) == [i \in 1..n |-> (v \div (256 ^ (i - 1))) % 256]

----------------------------------------------------------------------------
(* InfoSlot and the record codec (write_record / read_record).             *)

InfoSlot(ts, temp, hum) == [timestamp |-> ts, temperature |-> temp, humidity |-> hum]

\* The measurements the acquisition side hands over: the ring logic reads
\* the timestamp only, so temperature and humidity are held at 0.
Slots == {InfoSlot(t, 0, 0) : t \in Timestamps}

\* The same with every temperature 0..MaxTemp: slots that share a timestamp
\* and differ.
Readings == {InfoSlot(t, temp, 0) : t \in Timestamps, temp \in 0..MaxTemp}

\* InfoSlot::as_bytes: timestamp little-endian, temperature as u8, humidity.
as_bytes(slot) ==
    LeBytes(slot.timestamp, 4) \o <<(slot.temperature + 256) % 256, slot.humidity>>

\* The 14 bytes a record's checksum covers.
RecordHead(magic, seq, slot, reserved) ==
    LeBytes(magic, 2) \o LeBytes(seq, 4) \o as_bytes(slot) \o LeBytes(reserved, 2)

\* The checksum of every record head the model can put on the medium.
RecordCrc ==
    [seq \in SeqDom, ts \in 0..MaxTs, temp \in 0..MaxTemp |->
        crc16_ccitt(RecordHead(RECORD_MAGIC, seq, InfoSlot(ts, temp, 0), 0))] @@ <<>>

\* A zero-filled slot (zero_data_file).
ZeroSlot ==
    [magic |-> 0, seq |-> 0, slot |-> InfoSlot(0, 0, 0), reserved |-> 0, crc |-> 0]

\* The buffer write_record builds.
EncodeRecord(seq, slot) ==
    [magic |-> RECORD_MAGIC, seq |-> seq, slot |-> slot, reserved |-> 0,
     crc |-> RecordCrc[seq, slot.timestamp, slot.temperature]]

NoRecord == [some |-> FALSE]
SomeRecord(seq, slot) == [some |-> TRUE, seq |-> seq, slot |-> slot]

\* read_record's decoding of a slot: None on a magic or CRC mismatch.
DecodeRecord(buf) ==
    IF buf.magic # RECORD_MAGIC THEN NoRecord
    ELSE IF buf.crc # RecordCrc[buf.seq, buf.slot.timestamp, buf.slot.temperature]
    THEN NoRecord
    ELSE SomeRecord(buf.seq, buf.slot)

write_record(df, index, seq, slot) == [df EXCEPT ![index] = EncodeRecord(seq, slot)]

read_record(df, index) == DecodeRecord(df[index])

zero_data_file == [i \in Indices |-> ZeroSlot]

----------------------------------------------------------------------------
(* StorageState and the metadata codec (to_bytes / from_bytes).            *)

DefaultState == [head |-> 0, tail |-> 0, count |-> 0, next_seq |-> 0, generation |-> 0]

MetaHead(magic, version, reserved, st) ==
    LeBytes(magic, 4) \o LeBytes(version, 2) \o LeBytes(reserved, 2)
    \o LeBytes(st.generation, 4) \o LeBytes(st.head, 2) \o LeBytes(st.tail, 2)
    \o LeBytes(st.count, 2) \o LeBytes(st.next_seq, 4)

MetaCrc ==
    [g \in GenDom, h \in Indices, t \in Indices, c \in 0..STORAGE_CAPACITY, n \in SeqDom |->
        crc16_ccitt(MetaHead(META_MAGIC, META_VERSION, 0,
            [head |-> h, tail |-> t, count |-> c, next_seq |-> n, generation |-> g]))] @@ <<>>

\* A zero-filled metadata copy (write_empty_meta).
ZeroMeta ==
    [magic |-> 0, version |-> 0, reserved |-> 0, generation |-> 0, head |-> 0,
     tail |-> 0, count |-> 0, next_seq |-> 0, crc |-> 0]

to_bytes(st) ==
    [magic |-> META_MAGIC, version |-> META_VERSION, reserved |-> 0,
     generation |-> st.generation, head |-> st.head, tail |-> st.tail,
     count |-> st.count, next_seq |-> st.next_seq,
     crc |-> MetaCrc[st.generation, st.head, st.tail, st.count, st.next_seq]]

NoState == [some |-> FALSE]
SomeState(st) == [some |-> TRUE, st |-> st]

from_bytes(b) ==
    IF b.magic # META_MAGIC \/ b.version # META_VERSION THEN NoState
    ELSE IF b.crc # MetaCrc[b.generation, b.head, b.tail, b.count, b.next_seq] THEN NoState
    ELSE IF b.head >= STORAGE_CAPACITY \/ b.tail >= STORAGE_CAPACITY
            \/ b.count > STORAGE_CAPACITY THEN NoState
    ELSE SomeState([head |-> b.head, tail |-> b.tail, count |-> b.count,
                    next_seq |-> b.next_seq, generation |-> b.generation])

\* A faulty variant of the loop of load_meta: the first valid copy wins
\* whatever its generation.
RECURSIVE BestMeta_first_valid(_, _, _)
BestMeta_first_valid(mf, i, best) ==
    IF i >= META_COPIES THEN best
    ELSE LET s == from_bytes(mf[i])
         IN  BestMeta_first_valid(mf, i + 1, IF s.some /\ ~best.some THEN s ELSE best)

\* load_meta on a file of the expected length: the valid copy of the
\* highest generation, the earlier copy on a tie.
RECURSIVE BestMeta(_, _, _)
BestMeta(mf, i, best) ==
    IF i >= META_COPIES THEN best
    ELSE LET s == from_bytes(mf[i])
         IN  BestMeta(mf, i + 1,
                 IF s.some /\ (~best.some \/ ULt(best.st.generation, s.st.generation))
                 THEN s ELSE best)

load_meta(mf) == BestMeta(mf, 0, NoState)

\* What write_meta leaves in the metadata file.
\* A faulty variant of write_meta: only the first copy is written.
write_meta_first_copy(st) ==
    [i \in 0..(META_COPIES - 1) |-> IF i = 0 THEN to_bytes(st) ELSE ZeroMeta]

write_meta(st) == [i \in 0..(META_COPIES - 1) |-> to_bytes(st)]

----------------------------------------------------------------------------
(* Ring index and the reads of the ring.                                   *)

advance(index, steps) == (index + steps) % STORAGE_CAPACITY

\* The slot read_record finds at the k-th step (k = 0, 1, ...) of a walk
\* from head.
Walked(st, df, k) == read_record(df, advance(st.head, k))

Stored(r) == [seq |-> r.seq, slot |-> r.slot]

\* scan_ring with a visitor that collects (collect_records): Err
\* (RecordCorrupted) as soon as one of the count slots does not decode.
scan_ring(st, df) ==
    IF \A k \in 0..(st.count - 1) : Walked(st, df, k).some
    THEN [res |-> "Ok",
          records |-> [k \in 1..st.count |-> Stored(Walked(st, df, k - 1))]]
    ELSE [res |-> "RecordCorrupted", records |-> <<>>]

collect_records(st, df) == scan_ring(st, df)

SlotsOf(records) == [k \in 1..Len(records) |-> records[k].slot]

load_all(st, df) ==
    LET r == scan_ring(st, df) IN [res |-> r.res, slots |-> SlotsOf(r.records)]

find_range_exclusive(st, df, start_time, end_time) ==
    LET r == scan_ring(st, df)
        InRange(rec) == rec.slot.timestamp >= start_time /\ rec.slot.timestamp < end_time
    IN  [res |-> r.res, slots |-> SlotsOf(SelectSeq(r.records, InRange))]

find_range(st, df, start_time, end_time) ==
    LET r == scan_ring(st, df)
        InRange(rec) == rec.slot.timestamp >= start_time /\ rec.slot.timestamp <= end_time
    IN  [res |-> r.res, slots |-> SlotsOf(SelectSeq(r.records, InRange))]

\* load_info keeps overwriting `found`, so it returns the last match.
load_info(st, df, timestamp) ==
    LET r == scan_ring(st, df)
        Match(rec) == rec.slot.timestamp = timestamp
        hits == SlotsOf(SelectSeq(r.records, Match))
    IN  [res |-> r.res, slots |-> IF hits = <<>> THEN <<>> ELSE <<hits[Len(hits)]>>]

\* validate_ring: every one of the count slots from head decodes, sequence
\* numbers strictly increase and timestamps do not decrease along the walk.
validate_ring_ignores_timestamps(st, df) ==
    \/ st.count = 0
    \/ /\ \A k \in 0..(st.count - 1) : Walked(st, df, k).some
       /\ \A k \in 1..(st.count - 1) :
            ULt(Walked(st, df, k - 1).seq, Walked(st, df, k).seq)

validate_ring(st, df) ==
    \/ st.count = 0
    \/ /\ \A k \in 0..(st.count - 1) : Walked(st, df, k).some
       /\ \A k \in 1..(st.count - 1) :
            /\ ULt(Walked(st, df, k - 1).seq, Walked(st, df, k).seq)
            /\ Walked(st, df, k).slot.timestamp >= Walked(st, df, k - 1).slot.timestamp

----------------------------------------------------------------------------
(* The writes of an operation.  An operation yields the in-memory state it *)
(* ends with and the trace of the media: trace[1] is the media it found    *)
(* and each later element the media after one more write call, in program  *)
(* order (one zero block, one record, or the two metadata copies).         *)

Media(df, mf) == [d |-> df, m |-> mf]

Last(s) == s[Len(s)]

\* zero_data_file: STORAGE_CAPACITY zero blocks written from offset 0.
ZeroTrace(df, mf) ==
    [j \in 1..STORAGE_CAPACITY |->
        Media([i \in Indices |-> IF i < j THEN ZeroSlot ELSE df[i]], mf)]

\* The loop of write_record(i, record.seq, record.slot) over a zeroed file.
WriteTrace(records, mf) ==
    [k \in 1..Len(records) |->
        Media([i \in Indices |->
                 IF i < k THEN EncodeRecord(records[i + 1].seq, records[i + 1].slot)
                 ELSE ZeroSlot], mf)]

Result(res, st, trace) == [res |-> res, state |-> st, trace |-> trace]

\* The trace ending with write_meta of st.
Persist(trace, st) == trace \o <<Media(Last(trace).d, write_meta(st))>>

\* Faulty variants of enqueue: one that leaves head where it is when the
\* ring is full, one that refuses a full ring.
enqueue_keeps_head(st, df, mf, info) ==
    LET written == write_record(df, st.tail, st.next_seq, info)
        full == st.count = STORAGE_CAPACITY
        st1 == [head |-> st.head,
                tail |-> advance(st.tail, 1),
                count |-> IF full THEN st.count ELSE st.count + 1,
                next_seq |-> wrapping_add1(st.next_seq),
                generation |-> wrapping_add1(st.generation)]
    IN  Result("Ok", st1, Persist(<<Media(df, mf), Media(written, mf)>>, st1))

enqueue_rejects_full(st, df, mf, info) ==
    LET written == write_record(df, st.tail, st.next_seq, info)
        st1 == [head |-> st.head,
                tail |-> advance(st.tail, 1),
                count |-> st.count + 1,
                next_seq |-> wrapping_add1(st.next_seq),
                generation |-> wrapping_add1(st.generation)]
    IN  IF st.count = STORAGE_CAPACITY THEN Result("WriteError", st, <<Media(df, mf)>>)
        ELSE Result("Ok", st1, Persist(<<Media(df, mf), Media(written, mf)>>, st1))

enqueue(st, df, mf, info) ==
    LET written == write_record(df, st.tail, st.next_seq, info)
        full == st.count = STORAGE_CAPACITY
        st1 == [head |-> IF full THEN advance(st.head, 1) ELSE st.head,
                tail |-> advance(st.tail, 1),
                count |-> IF full THEN st.count ELSE st.count + 1,
                next_seq |-> wrapping_add1(st.next_seq),
                generation |-> wrapping_add1(st.generation)]
    IN  Result("Ok", st1, Persist(<<Media(df, mf), Media(written, mf)>>, st1))

\* Faulty variants of dequeue: one that leaves head where it is, one that
\* bumps and persists the generation before it finds the store empty.
dequeue_keeps_head(st, df, mf) ==
    IF st.count = 0 THEN Result("ReadError", st, <<Media(df, mf)>>)
    ELSE IF ~read_record(df, st.head).some
    THEN Result("RecordCorrupted", st, <<Media(df, mf)>>)
    ELSE LET st1 == [head |-> st.head,
                     tail |-> IF st.count - 1 = 0 THEN st.head
                              ELSE advance(st.tail, STORAGE_CAPACITY - 1),
                     count |-> st.count - 1,
                     next_seq |-> st.next_seq,
                     generation |-> wrapping_add1(st.generation)]
         IN  Result("Ok", st1, Persist(<<Media(df, mf)>>, st1))

dequeue_bumps_when_empty(st, df, mf) ==
    LET bumped == [st EXCEPT !.generation = wrapping_add1(@)]
        head1 == advance(st.head, 1)
        st1 == [head |-> head1,
                tail |-> IF st.count - 1 = 0 THEN head1 ELSE st.tail,
                count |-> st.count - 1,
                next_seq |-> st.next_seq,
                generation |-> wrapping_add1(st.generation)]
    IN  IF st.count = 0 THEN Result("ReadError", bumped, Persist(<<Media(df, mf)>>, bumped))
        ELSE IF ~read_record(df, st.head).some
        THEN Result("RecordCorrupted", st, <<Media(df, mf)>>)
        ELSE Result("Ok", st1, Persist(<<Media(df, mf)>>, st1))

dequeue(st, df, mf) ==
    IF st.count = 0 THEN Result("ReadError", st, <<Media(df, mf)>>)
    ELSE IF ~read_record(df, st.head).some
    THEN Result("RecordCorrupted", st, <<Media(df, mf)>>)
    ELSE LET head1 == advance(st.head, 1)
             st1 == [head |-> head1,
                     tail |-> IF st.count - 1 = 0 THEN head1 ELSE st.tail,
                     count |-> st.count - 1,
                     next_seq |-> st.next_seq,
                     generation |-> wrapping_add1(st.generation)]
         IN  Result("Ok", st1, Persist(<<Media(df, mf)>>, st1))

\* The slot dequeue returns on Ok.
dequeued(st, df) == read_record(df, st.head).slot

\* A faulty variant of rewrite_records that never rebuilds next_seq.
rewrite_records_keeps_next_seq(st, df, mf, records) ==
    IF Len(records) > STORAGE_CAPACITY THEN Result("WriteError", st, <<Media(df, mf)>>)
    ELSE LET n == Len(records)
             st1 == [head |-> 0,
                     tail |-> advance(0, n),
                     count |-> n,
                     next_seq |-> st.next_seq,
                     generation |-> wrapping_add1(st.generation)]
         IN  Result("Ok", st1,
                    Persist(<<Media(df, mf)>> \o ZeroTrace(df, mf) \o WriteTrace(records, mf),
                            st1))

rewrite_records(st, df, mf, records) ==
    IF Len(records) > STORAGE_CAPACITY THEN Result("WriteError", st, <<Media(df, mf)>>)
    ELSE LET n == Len(records)
             st1 == [head |-> 0,
                     tail |-> advance(0, n),
                     count |-> n,
                     next_seq |-> IF n = 0 THEN st.next_seq
                                  ELSE wrapping_add1(records[n].seq),
                     generation |-> wrapping_add1(st.generation)]
         IN  Result("Ok", st1,
                    Persist(<<Media(df, mf)>> \o ZeroTrace(df, mf) \o WriteTrace(records, mf),
                            st1))

erase_info_oldest_only(st, df, mf, timestamp) ==
    LET c == collect_records(st, df)
        Hits == {k \in 1..Len(c.records) : c.records[k].slot.timestamp = timestamp}
        first == CHOOSE k \in Hits : \A j \in Hits : k <= j
        kept == [k \in 1..(Len(c.records) - 1) |->
                   IF k < first THEN c.records[k] ELSE c.records[k + 1]]
    IN  IF c.res # "Ok" THEN Result(c.res, st, <<Media(df, mf)>>)
        ELSE IF Hits = {} THEN Result("Ok", st, <<Media(df, mf)>>)
        ELSE rewrite_records(st, df, mf, kept)

\* A faulty variant of erase_info that compacts whether or not a record
\* was removed.
erase_info_always_compacts(st, df, mf, timestamp) ==
    LET c == collect_records(st, df)
        Keep(rec) == rec.slot.timestamp # timestamp
    IN  IF c.res # "Ok" THEN Result(c.res, st, <<Media(df, mf)>>)
        ELSE rewrite_records(st, df, mf, SelectSeq(c.records, Keep))

erase_info(st, df, mf, timestamp) ==
    LET c == collect_records(st, df)
        Keep(rec) == rec.slot.timestamp # timestamp
        kept == SelectSeq(c.records, Keep)
    IN  IF c.res # "Ok" THEN Result(c.res, st, <<Media(df, mf)>>)
        ELSE IF Len(kept) = Len(c.records) THEN Result("Ok", st, <<Media(df, mf)>>)
        ELSE rewrite_records(st, df, mf, kept)

clear_range_keeps_bounds(st, df, mf, start_time, end_time) ==
    LET c == collect_records(st, df)
        Keep(rec) == rec.slot.timestamp <= start_time \/ rec.slot.timestamp >= end_time
    IN  IF c.res # "Ok" THEN Result(c.res, st, <<Media(df, mf)>>)
        ELSE rewrite_records(st, df, mf, SelectSeq(c.records, Keep))

clear_range(st, df, mf, start_time, end_time) ==
    LET c == collect_records(st, df)
        Keep(rec) == rec.slot.timestamp < start_time \/ rec.slot.timestamp > end_time
    IN  IF c.res # "Ok" THEN Result(c.res, st, <<Media(df, mf)>>)
        ELSE rewrite_records(st, df, mf, SelectSeq(c.records, Keep))

clear_storage_keeps_counters(st, df, mf) ==
    LET st1 == [DefaultState EXCEPT !.next_seq = st.next_seq,
                                    !.generation = st.generation]
    IN  Result("Ok", st1, Persist(<<Media(df, mf)>> \o ZeroTrace(df, mf), st1))

clear_storage(st, df, mf) ==
    Result("Ok", DefaultState,
           Persist(<<Media(df, mf)>> \o ZeroTrace(df, mf), DefaultState))

RECURSIVE persist_all(_, _, _, _)
persist_all(st, df, mf, infos) ==
    IF infos = <<>> THEN Result("Ok", st, <<Media(df, mf)>>)
    ELSE LET r == enqueue(st, df, mf, Head(infos))
             rest == persist_all(r.state, Last(r.trace).d, Last(r.trace).m, Tail(infos))
         IN  Result(rest.res, rest.state, r.trace \o Tail(rest.trace))

----------------------------------------------------------------------------
(* Recovery.                                                               *)

\* The records full_scan_recovery reads: every slot 0..CAPACITY-1 that
\* decodes, in index order.
RECURSIVE Decoded(_, _)
Decoded(df, idx) ==
    IF idx >= STORAGE_CAPACITY THEN <<>>
    ELSE (IF read_record(df, idx).some THEN <<Stored(read_record(df, idx))>> ELSE <<>>)
         \o Decoded(df, idx + 1)

\* sort_by_key(|record| record.seq): a stable sort.
RECURSIVE InsertBySeq(_, _)
InsertBySeq(s, r) ==
    IF s = <<>> THEN <<r>>
    ELSE IF ULt(r.seq, Head(s).seq) THEN <<r>> \o s
    ELSE <<Head(s)>> \o InsertBySeq(Tail(s), r)

RECURSIVE sort_by_seq(_)
sort_by_seq(s) ==
    IF s = <<>> THEN <<>>
    ELSE InsertBySeq(sort_by_seq(SubSeq(s, 1, Len(s) - 1)), s[Len(s)])

full_scan_recovery_restarts_generation(st, df, mf) ==
    LET all_records == Decoded(df, 0)
        sorted == sort_by_seq(all_records)
        kept == IF Len(sorted) > STORAGE_CAPACITY
                THEN SubSeq(sorted, Len(sorted) - STORAGE_CAPACITY + 1, Len(sorted))
                ELSE sorted
        n == Len(kept)
        st1 == [head |-> 0,
                tail |-> advance(0, n),
                count |-> n,
                next_seq |-> wrapping_add1(kept[n].seq),
                generation |-> 1]
    IN  IF all_records = <<>>
        THEN Result("Ok", DefaultState, Persist(<<Media(df, mf)>>, DefaultState))
        ELSE Result("Ok", st1,
                    Persist(<<Media(df, mf)>> \o ZeroTrace(df, mf) \o WriteTrace(kept, mf),
                            st1))

full_scan_recovery_unsorted(st, df, mf) ==
    LET all_records == Decoded(df, 0)
        sorted == all_records
        kept == IF Len(sorted) > STORAGE_CAPACITY
                THEN SubSeq(sorted, Len(sorted) - STORAGE_CAPACITY + 1, Len(sorted))
                ELSE sorted
        n == Len(kept)
        st1 == [head |-> 0,
                tail |-> advance(0, n),
                count |-> n,
                next_seq |-> wrapping_add1(kept[n].seq),
                generation |-> wrapping_add1(st.generation)]
    IN  IF all_records = <<>>
        THEN Result("Ok", DefaultState, Persist(<<Media(df, mf)>>, DefaultState))
        ELSE Result("Ok", st1,
                    Persist(<<Media(df, mf)>> \o ZeroTrace(df, mf) \o WriteTrace(kept, mf),
                            st1))

full_scan_recovery(st, df, mf) ==
    LET all_records == Decoded(df, 0)
        sorted == sort_by_seq(all_records)
        kept == IF Len(sorted) > STORAGE_CAPACITY
                THEN SubSeq(sorted, Len(sorted) - STORAGE_CAPACITY + 1, Len(sorted))
                ELSE sorted
        n == Len(kept)
        st1 == [head |-> 0,
                tail |-> advance(0, n),
                count |-> n,
                next_seq |-> wrapping_add1(kept[n].seq),
                generation |-> wrapping_add1(st.generation)]
    IN  IF all_records = <<>>
        THEN Result("Ok", DefaultState, Persist(<<Media(df, mf)>>, DefaultState))
        ELSE Result("Ok", st1,
                    Persist(<<Media(df, mf)>> \o ZeroTrace(df, mf) \o WriteTrace(kept, mf),
                            st1))

\* The path recover_internal takes: "none" (count == 0), "fast"
\* (validate_ring held) or "full".
RecoveryPath(st, df) ==
    IF st.count = 0 THEN "none"
    ELSE IF validate_ring(st, df) THEN "fast"
    ELSE "full"

\* A faulty variant of recover_internal that runs the full scan on a ring
\* of count 0 as well.
recover_internal_scans_empty(st, df, mf) ==
    IF st.count = 0 \/ ~validate_ring(st, df) THEN full_scan_recovery(st, df, mf)
    ELSE Result("Ok", st, <<Media(df, mf)>>)

recover_internal(st, df, mf) ==
    IF RecoveryPath(st, df) = "full" THEN full_scan_recovery(st, df, mf)
    ELSE Result("Ok", st, <<Media(df, mf)>>)

\* The state InfoStorage::new starts recovery from: the loaded metadata, or
\* the default state when no copy is valid.
LoadedState(mf) == IF load_meta(mf).some THEN load_meta(mf).st ELSE DefaultState

new(df, mf) == recover_internal(LoadedState(mf), df, mf)

----------------------------------------------------------------------------
(* Interrupted writes.  A write call cut short leaves the fields before    *)
(* the cut new and the fields after it old.                                *)

TornRecord(old, written, c) ==
    [magic |-> IF c >= 1 THEN written.magic ELSE old.magic,
     seq |-> IF c >= 2 THEN written.seq ELSE old.seq,
     slot |-> IF c >= 3 THEN written.slot ELSE old.slot,
     reserved |-> IF c >= 4 THEN written.reserved ELSE old.reserved,
     crc |-> old.crc]

TornMeta(old, written, c) ==
    [magic |-> IF c >= 1 THEN written.magic ELSE old.magic,
     version |-> IF c >= 2 THEN written.version ELSE old.version,
     reserved |-> IF c >= 3 THEN written.reserved ELSE old.reserved,
     generation |-> IF c >= 4 THEN written.generation ELSE old.generation,
     head |-> IF c >= 5 THEN written.head ELSE old.head,
     tail |-> IF c >= 6 THEN written.tail ELSE old.tail,
     count |-> IF c >= 7 THEN written.count ELSE old.count,
     next_seq |-> IF c >= 8 THEN written.next_seq ELSE old.next_seq,
     crc |-> old.crc]

\* The media a write call from a to b can leave when it is cut short: the
\* one data slot it writes torn, or the metadata buffer (copy 0 then copy
\* 1, one write_all) torn inside copy k.
Torn(a, b) ==
    IF a.d # b.d
    THEN LET i == CHOOSE i \in Indices : a.d[i] # b.d[i]
         IN  {Media([a.d EXCEPT ![i] = TornRecord(a.d[i], b.d[i], c)], a.m) : c \in 1..4}
    ELSE IF a.m # b.m
    THEN {Media(a.d, [i \in 0..(META_COPIES - 1) |->
                        IF i < k THEN b.m[i]
                        ELSE IF i = k THEN TornMeta(a.m[i], b.m[i], c)
                        ELSE a.m[i]]) : k \in 0..(META_COPIES - 1), c \in 0..8}
    ELSE {}

\* The media a power loss during an operation can leave: after any number
\* of its write calls, the next one not started or cut short.
CrashPoints(trace) ==
    UNION {{trace[j]} \cup Torn(trace[j], trace[j + 1]) : j \in 1..(Len(trace) - 1)}

----------------------------------------------------------------------------
(* The reference FIFO: what each call does to the queue of live slots.     *)

NoSlot == InfoSlot(0, 0, 0)

RefEnqueue(q, info) ==
    IF Len(q) >= STORAGE_CAPACITY THEN Tail(q) \o <<info>> ELSE q \o <<info>>

RefDequeue(q) == IF q = <<>> THEN q ELSE Tail(q)

RefErase(q, timestamp) ==
    LET Keep(sl) == sl.timestamp # timestamp IN SelectSeq(q, Keep)

RefClearRange(q, start_time, end_time) ==
    LET Keep(sl) == sl.timestamp < start_time \/ sl.timestamp > end_time
    IN  SelectSeq(q, Keep)

RECURSIVE RefPersistAll(_, _)
RefPersistAll(q, infos) ==
    IF infos = <<>> THEN q ELSE RefPersistAll(RefEnqueue(q, Head(infos)), Tail(infos))

----------------------------------------------------------------------------
(* The state machine.                                                      *)

\* Batches handed to persist_all hold BatchLen slots.
BatchLen == 2
Batches == [1..BatchLen -> Slots]

Called(op, res, slot, path) == [op |-> op, res |-> res, slot |-> slot, path |-> path]

Init ==
    /\ phase = "Ready"
    /\ state = DefaultState
    /\ data_file = zero_data_file
    /\ meta_file = [i \in 0..(META_COPIES - 1) |-> ZeroMeta]
    /\ last = Called("new", "Ok", NoSlot, "none")
    /\ live = <<>>
    /\ incidents = 0

\* A store that has assigned all but the last WrapLead of the 2^32 sequence
\* numbers and is empty: 2^32 - WrapLead enqueues, then clear_range over
\* every timestamp twice.  rewrite_records of no record zero-fills the data
\* file, sets head = tail = count = 0, keeps next_seq and bumps generation,
\* which has wrapped to 0 after the second call.
AgedState == [DefaultState EXCEPT !.next_seq = -WrapLead]

InitAged ==
    /\ phase = "Ready"
    /\ state = AgedState
    /\ data_file = zero_data_file
    /\ meta_file = write_meta(AgedState)
    /\ last = Called("clear_range", "Ok", NoSlot, "-")
    /\ live = <<>>
    /\ incidents = 0

\* A mutating call may start.
Ready(n) ==
    /\ phase = "Ready"
    /\ state.generation + n <= MaxGen
    /\ state.next_seq + n <= MaxGen + 1

\* A call returns: the engine holds r.state and the media are as the last
\* write left them.
Return(op, r, slot, path, ref) ==
    /\ phase' = "Ready"
    /\ state' = r.state
    /\ data_file' = Last(r.trace).d
    /\ meta_file' = Last(r.trace).m
    /\ last' = Called(op, r.res, slot, path)
    /\ live' = IF r.res = "Ok" THEN ref ELSE live
    /\ UNCHANGED incidents

\* Power is lost during a call.
Crash(op, r, ref) ==
    /\ incidents < MaxIncidents
    /\ incidents' = incidents + 1
    /\ \E md \in CrashPoints(r.trace) :
         /\ data_file' = md.d
         /\ meta_file' = md.m
    /\ phase' = "Down"
    /\ state' = DefaultState
    /\ last' = Called(op, "Crashed", NoSlot, "-")
    /\ live' = ref

Enqueue(info) ==
    /\ Ready(1)
    /\ Return("enqueue", enqueue(state, data_file, meta_file, info), NoSlot, "-",
              RefEnqueue(live, info))

Dequeue ==
    /\ Ready(1)
    /\ LET r == dequeue(state, data_file, meta_file)
       IN  Return("dequeue", r,
                  IF r.res = "Ok" THEN dequeued(state, data_file) ELSE NoSlot, "-",
                  RefDequeue(live))

EraseInfo(timestamp) ==
    /\ Ready(1)
    /\ Return("erase_info", erase_info(state, data_file, meta_file, timestamp), NoSlot, "-",
              RefErase(live, timestamp))

ClearRange(start_time, end_time) ==
    /\ Ready(1)
    /\ Return("clear_range", clear_range(state, data_file, meta_file, start_time, end_time),
              NoSlot, "-", RefClearRange(live, start_time, end_time))

ClearStorage ==
    /\ Ready(1)
    /\ Return("clear_storage", clear_storage(state, data_file, meta_file), NoSlot, "-", <<>>)

PersistAll(infos) ==
    /\ Ready(Len(infos))
    /\ Return("persist_all", persist_all(state, data_file, meta_file, infos), NoSlot, "-",
              RefPersistAll(live, infos))

Recover ==
    /\ Ready(1)
    /\ Return("recover", recover_internal(state, data_file, meta_file), NoSlot,
              RecoveryPath(state, data_file), live)

\* The InfoStorage value is dropped: nothing is written.
Close ==
    /\ phase = "Ready"
    /\ phase' = "Down"
    /\ state' = DefaultState
    /\ last' = Called("close", "Ok", NoSlot, "-")
    /\ UNCHANGED <<data_file, meta_file, live, incidents>>

\* InfoStorage::new on the files as they are.  The reference FIFO restarts
\* from what the reopened store holds.
Open ==
    /\ phase = "Down"
    /\ LoadedState(meta_file).generation <= MaxGen
    /\ LET r == new(data_file, meta_file)
       IN  Return("new", r, NoSlot, RecoveryPath(LoadedState(meta_file), data_file),
                  load_all(r.state, Last(r.trace).d).slots)

CrashEnqueue(info) ==
    /\ Ready(1)
    /\ Crash("enqueue", enqueue(state, data_file, meta_file, info),
             IF state.count = STORAGE_CAPACITY THEN Tail(live) ELSE live)

CrashDequeue ==
    /\ Ready(1)
    /\ Crash("dequeue", dequeue(state, data_file, meta_file), RefDequeue(live))

CrashEraseInfo(timestamp) ==
    /\ Ready(1)
    /\ Crash("erase_info", erase_info(state, data_file, meta_file, timestamp),
             RefErase(live, timestamp))

CrashClearRange(start_time, end_time) ==
    /\ Ready(1)
    /\ Crash("clear_range", clear_range(state, data_file, meta_file, start_time, end_time),
             RefClearRange(live, start_time, end_time))

CrashClearStorage ==
    /\ Ready(1)
    /\ Crash("clear_storage", clear_storage(state, data_file, meta_file), <<>>)

CrashRecover ==
    /\ Ready(1)
    /\ Crash("recover", recover_internal(state, data_file, meta_file), live)

CrashOpen ==
    /\ phase = "Down"
    /\ LoadedState(meta_file).generation <= MaxGen
    /\ Crash("new", new(data_file, meta_file), live)

\* The data slots of S stop decoding while the engine is down (once per
\* down time): their stored CRCs are damaged.
Corrupt(S) ==
    /\ phase = "Down"
    /\ last.op # "corrupt"
    /\ S # {}
    /\ \A i \in S : read_record(data_file, i).some
    /\ data_file' = [i \in Indices |->
                        IF i \in S THEN [data_file[i] EXCEPT !.crc = (@ + 1) % U16]
                        ELSE data_file[i]]
    /\ last' = Called("corrupt", "-", NoSlot, "-")
    /\ UNCHANGED <<phase, state, meta_file, live, incidents>>

\* enqueue returns the medium's I/O fault: the failing write call is the
\* j-th of the call (the record write and its sync, or the metadata write
\* and its flush), left undone, cut short or (the sync or flush failing)
\* done.  The ring state is mutated between the two.
EnqueueFault(info) ==
    /\ Ready(1)
    /\ incidents < MaxIncidents
    /\ incidents' = incidents + 1
    /\ LET r == enqueue(state, data_file, meta_file, info)
       IN  \E j \in 2..Len(r.trace) :
             /\ \E md \in {r.trace[j - 1], r.trace[j]} \cup Torn(r.trace[j - 1], r.trace[j]) :
                  /\ data_file' = md.d
                  /\ meta_file' = md.m
             /\ state' = IF j = Len(r.trace) THEN r.state ELSE state
    /\ last' = Called("enqueue", "Io", NoSlot, "-")
    /\ UNCHANGED <<phase, live>>

NextFifo ==
    \/ \E info \in Slots : Enqueue(info)
    \/ Dequeue

NextOps ==
    \/ NextFifo
    \/ \E t \in Timestamps : EraseInfo(t)
    \/ \E s, e \in Timestamps : ClearRange(s, e)
    \/ ClearStorage
    \/ \E infos \in Batches : PersistAll(infos)
    \/ Recover

NextCrash ==
    \/ NextOps
    \/ Close
    \/ Open
    \/ \E info \in Slots : CrashEnqueue(info)
    \/ CrashDequeue
    \/ \E t \in Timestamps : CrashEraseInfo(t)
    \/ \E s, e \in Timestamps : CrashClearRange(s, e)
    \/ CrashClearStorage
    \/ CrashRecover
    \/ CrashOpen

NextCorrupt ==
    \/ NextCrash
    \/ \E S \in SUBSET Indices : Corrupt(S)

NextFault ==
    \/ NextOps
    \/ \E info \in Slots : EnqueueFault(info)

\* A store built by enqueues, damaged while down and reopened.
NextDamage ==
    \/ \E info \in Slots : Enqueue(info)
    \/ Close
    \/ \E S \in SUBSET Indices : Corrupt(S)
    \/ Open

\* Successful calls on an open engine.
Spec == Init /\ [][NextOps]_vars
\* Enqueues and dequeues only.
SpecFifo == Init /\ [][NextFifo]_vars
\* Calls, power loss during any of them, and reopening.
SpecCrash == Init /\ [][NextCrash]_vars
\* The same with data slots that stop decoding while the engine is down.
SpecCorrupt == Init /\ [][NextCorrupt]_vars
\* Calls, and enqueues that return an I/O fault.
SpecFault == Init /\ [][NextFault]_vars
\* Enqueues, damage while down, and reopening.
SpecDamage == Init /\ [][NextDamage]_vars
\* Successful calls on a store whose sequence counter is about to wrap.
SpecAged == InitAged /\ [][NextOps]_vars
\* Enqueues, damage while down, and reopening, on such a store.
SpecAgedDamage == InitAged /\ [][NextDamage]_vars

----------------------------------------------------------------------------
(* InfoStorage::new step by step: Uninitialized ("Down"), "Opening" (the   *)
(* files are open and the engine holds the default state), "Recovering"    *)
(* (the data file has its length and the metadata are loaded), "Ready".    *)

\* A file whose length is not the expected one: open_rw has just created
\* it, or recreate_file has truncated it.
BadLength == <<>>

\* Before first use: open_rw will create both files.
InitUnused ==
    /\ phase = "Down"
    /\ state = DefaultState
    /\ data_file = BadLength
    /\ meta_file = BadLength
    /\ last = Called("none", "-", NoSlot, "-")
    /\ live = <<>>
    /\ incidents = 0

ensure_data_file_len_keeps_slot(df) ==
    IF df = BadLength
    THEN [i \in Indices |-> IF i = 0 THEN EncodeRecord(0, InfoSlot(1, 0, 0)) ELSE ZeroSlot]
    ELSE df

\* ensure_data_file_len: a data file of another length is recreated and
\* zero-filled.
ensure_data_file_len(df) == IF df = BadLength THEN zero_data_file ELSE df

\* write_empty_meta: both copies zero-filled.
write_empty_meta == [i \in 0..(META_COPIES - 1) |-> ZeroMeta]

\* The metadata file load_meta leaves: recreated and zero-filled when its
\* length was another.
MetaAfterLoad(mf) == IF mf = BadLength THEN write_empty_meta ELSE mf

\* storage.state after load_meta()?.unwrap_or_else(default).
StateAfterLoad(mf) == IF mf = BadLength THEN DefaultState ELSE LoadedState(mf)

\* open_rw of both files and the construction of the engine value.
OpenFiles ==
    /\ phase = "Down"
    /\ phase' = "Opening"
    /\ state' = DefaultState
    /\ last' = Called("new", "Pending", NoSlot, "-")
    /\ UNCHANGED <<data_file, meta_file, live, incidents>>

\* open_rw returns the medium's fault: new returns it.
OpenFilesFault ==
    /\ phase = "Down"
    /\ incidents < MaxIncidents
    /\ incidents' = incidents + 1
    /\ last' = Called("new", "Io", NoSlot, "-")
    /\ UNCHANGED <<phase, state, data_file, meta_file, live>>

\* ensure_data_file_len and load_meta.
LoadState ==
    /\ phase = "Opening"
    /\ meta_file # BadLength => LoadedState(meta_file).generation <= MaxGen
    /\ phase' = "Recovering"
    /\ data_file' = ensure_data_file_len(data_file)
    /\ meta_file' = MetaAfterLoad(meta_file)
    /\ state' = StateAfterLoad(meta_file)
    /\ last' = Called("new", "Pending", NoSlot, "-")
    /\ UNCHANGED <<live, incidents>>

\* The same where recreate_file's remove_file returns a fault other than
\* NotFound: recreate_file logs it and goes on to File::create.
LoadStateRemoveFailed ==
    /\ phase = "Opening"
    /\ data_file = BadLength \/ meta_file = BadLength
    /\ meta_file # BadLength => LoadedState(meta_file).generation <= MaxGen
    /\ incidents < MaxIncidents
    /\ incidents' = incidents + 1
    /\ phase' = "Recovering"
    /\ data_file' = ensure_data_file_len(data_file)
    /\ meta_file' = MetaAfterLoad(meta_file)
    /\ state' = StateAfterLoad(meta_file)
    /\ last' = Called("new", "PendingAfterFault", NoSlot, "-")
    /\ UNCHANGED live

\* ensure_data_file_len or load_meta returns the medium's fault (metadata(),
\* File::create, a write, a flush, a seek or read_exact), before or after
\* the data file was given its length: new returns it.
LoadStateFault ==
    /\ phase = "Opening"
    /\ incidents < MaxIncidents
    /\ incidents' = incidents + 1
    /\ phase' = "Down"
    /\ state' = DefaultState
    /\ data_file' \in {data_file, ensure_data_file_len(data_file)}
    /\ last' = Called("new", "Io", NoSlot, "-")
    /\ UNCHANGED <<meta_file, live>>

\* recover_internal, and new returns the engine.
RecoverOnOpen ==
    /\ phase = "Recovering"
    /\ LET r == recover_internal(state, data_file, meta_file)
       IN  Return("new", r, NoSlot, RecoveryPath(state, data_file),
                  load_all(r.state, Last(r.trace).d).slots)

\* recover_internal returns the medium's fault, from a read or from the
\* j-th write call of the full scan, left undone, cut short or done: new
\* returns it.
RecoverOnOpenFault ==
    /\ phase = "Recovering"
    /\ incidents < MaxIncidents
    /\ incidents' = incidents + 1
    /\ phase' = "Down"
    /\ state' = DefaultState
    /\ \E md \in CrashPoints(recover_internal(state, data_file, meta_file).trace)
                 \cup {Media(data_file, meta_file)} :
         /\ data_file' = md.d
         /\ meta_file' = md.m
    /\ last' = Called("new", "Io", NoSlot, "-")
    /\ UNCHANGED live

\* First use, enqueues and dequeues, closing, damage while down, and
\* opening step by step with the faults of the medium.
NextOpen ==
    \/ OpenFiles
    \/ OpenFilesFault
    \/ LoadState
    \/ LoadStateRemoveFailed
    \/ LoadStateFault
    \/ RecoverOnOpen
    \/ RecoverOnOpenFault
    \/ \E info \in Slots : Enqueue(info)
    \/ Dequeue
    \/ Close
    \/ \E S \in SUBSET Indices : data_file # BadLength /\ Corrupt(S)

SpecOpen == InitUnused /\ [][NextOpen]_vars

\* While the engine is down the data file is found with another length
\* than RECORD_SIZE * STORAGE_CAPACITY (another layout, a truncated file).
ForeignDataFile ==
    /\ phase = "Down"
    /\ data_file # BadLength
    /\ data_file' = BadLength
    /\ last' = Called("foreign", "-", NoSlot, "data")
    /\ UNCHANGED <<phase, state, meta_file, live, incidents>>

\* The same for the metadata file and META_RECORD_SIZE * META_COPIES.
ForeignMetaFile ==
    /\ phase = "Down"
    /\ meta_file # BadLength
    /\ meta_file' = BadLength
    /\ last' = Called("foreign", "-", NoSlot, "meta")
    /\ UNCHANGED <<phase, state, data_file, live, incidents>>

\* First use, enqueues, closing, files of another length, and opening step
\* by step.
NextLayout ==
    \/ OpenFiles
    \/ LoadState
    \/ LoadStateRemoveFailed
    \/ RecoverOnOpen
    \/ \E info \in Slots : Enqueue(info)
    \/ Close
    \/ ForeignDataFile
    \/ ForeignMetaFile

SpecLayout == InitUnused /\ [][NextLayout]_vars

----------------------------------------------------------------------------
(* load_meta on every pair of metadata copies.                             *)

\* The ring states the copies encode: an empty store and a store of one
\* record, at every generation.
MetaStates ==
    {[head |-> 0, tail |-> c, count |-> c, next_seq |-> c, generation |-> g] :
        c \in 0..1, g \in 0..MaxGen}

\* A copy is the encoding of such a state, the same with a damaged
\* checksum or another version, or zero-filled.
MetaCopies ==
    {to_bytes(st) : st \in MetaStates}
    \cup {[to_bytes(st) EXCEPT !.crc = (@ + 1) % U16] : st \in MetaStates}
    \cup {[to_bytes(st) EXCEPT !.version = META_VERSION + 1] : st \in MetaStates}
    \cup {ZeroMeta}

\* new has opened the files, the metadata file holds any two copies.
InitMeta ==
    /\ phase = "Opening"
    /\ state = DefaultState
    /\ data_file = zero_data_file
    /\ meta_file \in [0..(META_COPIES - 1) -> MetaCopies]
    /\ last = Called("new", "Pending", NoSlot, "-")
    /\ live = <<>>
    /\ incidents = 0

\* load_meta()?.unwrap_or_else(default): last.res tells Some from None.
LoadMeta ==
    /\ phase = "Opening"
    /\ phase' = "Recovering"
    /\ state' = LoadedState(meta_file)
    /\ last' = Called("load_meta", IF load_meta(meta_file).some THEN "Some" ELSE "None",
                      NoSlot, "-")
    /\ UNCHANGED <<data_file, meta_file, live, incidents>>

NextMeta ==
    \/ LoadMeta
    \/ RecoverOnOpen

SpecMeta == InitMeta /\ [][NextMeta]_vars

----------------------------------------------------------------------------
(* The read calls: find_range, load_all and load_info.                     *)

\* The times a caller asks for: every timestamp in use, and one on each
\* side of them.
QueryTimes == 0..(MaxTs + 1)

\* What a read call returns to the caller: the slots it collected (for
\* load_info the Option as a sequence of at most one slot).
Read(op, res, slots) ==
    [op |-> op, res |-> res, slot |-> NoSlot, path |-> "-", slots |-> slots]

scan_only_bumps(st, df, mf, r) ==
    Result(r.res, [st EXCEPT !.generation = wrapping_add1(@)], <<Media(df, mf)>>)

\* What a read call leaves of the engine: scan_ring seeks and reads the
\* data file, and neither the ring state nor a file is written.
scan_only(st, df, mf, r) == Result(r.res, st, <<Media(df, mf)>>)

ReturnRead(op, r) ==
    LET after == scan_only(state, data_file, meta_file, r)
    IN  /\ phase = "Ready"
        /\ state' = after.state
        /\ data_file' = Last(after.trace).d
        /\ meta_file' = Last(after.trace).m
        /\ last' = Read(op, after.res, r.slots)
        /\ UNCHANGED <<phase, live, incidents>>

FindRange(start_time, end_time) ==
    /\ phase = "Ready"
    /\ ReturnRead("find_range", find_range(state, data_file, start_time, end_time))

LoadAllSlots ==
    /\ phase = "Ready"
    /\ ReturnRead("load_all", load_all(state, data_file))

LoadInfo(timestamp) ==
    /\ phase = "Ready"
    /\ ReturnRead("load_info", load_info(state, data_file, timestamp))

Reads ==
    \/ \E s, e \in QueryTimes : FindRange(s, e)
    \/ LoadAllSlots
    \/ \E t \in QueryTimes : LoadInfo(t)

\* Enqueues of every reading, dequeues, and reads.
NextRead ==
    \/ \E info \in Readings : Enqueue(info)
    \/ Dequeue
    \/ Reads

\* Enqueues of every reading, dequeues, and the two deletions for every
\* query time.
NextEdit ==
    \/ \E info \in Readings : Enqueue(info)
    \/ Dequeue
    \/ \E t \in QueryTimes : EraseInfo(t)
    \/ \E s, e \in QueryTimes : ClearRange(s, e)

\* Enqueues, enqueues that return an I/O fault, and reads.
NextReadFault ==
    \/ \E info \in Slots : Enqueue(info)
    \/ \E info \in Slots : EnqueueFault(info)
    \/ Reads

SpecRead == Init /\ [][NextRead]_vars
SpecEdit == Init /\ [][NextEdit]_vars
SpecReadFault == Init /\ [][NextReadFault]_vars

----------------------------------------------------------------------------
(* write_record and read_record on the bytes of the data file.             *)

\* u32::from_le_bytes, the result held in two's complement as above.
u32_from_le_bytes(b) ==
    b[1] + 256 * b[2] + 65536 * b[3]
    + 16777216 * (IF b[4] >= 128 THEN b[4] - 256 ELSE b[4])

slot_from_bytes_unsigned(bytes) ==
    InfoSlot(u32_from_le_bytes(SubSeq(bytes, 1, 4)), bytes[5], bytes[6])

\* InfoSlot::from_bytes: bytes[4] as i8.
slot_from_bytes(bytes) ==
    InfoSlot(u32_from_le_bytes(SubSeq(bytes, 1, 4)),
             IF bytes[5] >= 128 THEN bytes[5] - 256 ELSE bytes[5],
             bytes[6])

\* The 16 bytes write_record puts in a slot: magic, seq, the slot's six
\* bytes, two reserved zero bytes, and the checksum of those fourteen.
record_bytes(seq, slot) ==
    LET head == RecordHead(RECORD_MAGIC, seq, slot, 0)
    IN  head \o LeBytes(crc16_ccitt(head), 2)

\* read_record on the 16 bytes it has read: None on a magic or checksum
\* mismatch, else the sequence number and the slot rebuilt from
\* buf[6..12].
read_bytes(buf) ==
    IF buf[1] + 256 * buf[2] # RECORD_MAGIC THEN NoRecord
    ELSE IF buf[15] + 256 * buf[16] # crc16_ccitt(SubSeq(buf, 1, 14)) THEN NoRecord
    ELSE SomeRecord(u32_from_le_bytes(SubSeq(buf, 3, 6)), slot_from_bytes(SubSeq(buf, 7, 12)))

\* The sequence numbers and measurements written: both ends of each field.
CodecSeqs == {0, -1}
CodecSlots == {InfoSlot(1, 0, 0), InfoSlot(-1, -1, 255)}

\* The bytes that get damaged: one of the magic, one of the payload, one
\* of the checksum.
DamagedBytes == {1, 7, 16}

\* A zero-filled data file; live[i] is what write_record last put in slot
\* i, as long as no byte of the slot was damaged since.
InitCodec ==
    /\ phase = "Ready"
    /\ state = DefaultState
    /\ data_file = [i \in Indices |-> [k \in 1..16 |-> 0]]
    /\ meta_file = write_meta(DefaultState)
    /\ last = Called("new", "Ok", NoSlot, "-")
    /\ live = [i \in Indices |-> NoRecord]
    /\ incidents = 0

WriteRecord(index, seq, slot) ==
    /\ data_file' = [data_file EXCEPT ![index] = record_bytes(seq, slot)]
    /\ live' = [live EXCEPT ![index] = SomeRecord(seq, slot)]
    /\ last' = [op |-> "write_record", res |-> "Ok", slot |-> slot, path |-> "-",
                seq |-> seq, index |-> index]
    /\ UNCHANGED <<phase, state, meta_file, incidents>>

\* read_record(index): Ok(Some(record)) or Ok(None).
ReadRecord(index) ==
    /\ LET r == read_bytes(data_file[index])
       IN  last' = [op |-> "read_record", res |-> IF r.some THEN "Some" ELSE "None",
                    slot |-> IF r.some THEN r.slot ELSE NoSlot, path |-> "-",
                    seq |-> IF r.some THEN r.seq ELSE 0, index |-> index]
    /\ UNCHANGED <<phase, state, data_file, meta_file, live, incidents>>

\* The medium changes one byte of a written slot.
DamageByte(index, k) ==
    /\ incidents < MaxIncidents
    /\ incidents' = incidents + 1
    /\ live[index].some
    /\ data_file' = [data_file EXCEPT ![index][k] = (@ + 128) % 256]
    /\ live' = [live EXCEPT ![index] = NoRecord]
    /\ last' = [op |-> "damage", res |-> "-", slot |-> NoSlot, path |-> "-",
                seq |-> 0, index |-> index]
    /\ UNCHANGED <<phase, state, meta_file>>

NextCodec ==
    \/ \E index \in Indices, seq \in CodecSeqs, slot \in CodecSlots :
         WriteRecord(index, seq, slot)
    \/ \E index \in Indices : ReadRecord(index)
    \/ \E index \in Indices, k \in DamagedBytes : DamageByte(index, k)

SpecCodec == InitCodec /\ [][NextCodec]_vars

----------------------------------------------------------------------------
(* utils::CircularQueue<T, N>.  In the specifications of this section the  *)
(* queue is held in `state`, `live` lists the values that were added and   *)
(* not yet handed back (oldest first), and `last` is the last call.        *)

NoneT == [some |-> FALSE]
SomeT(v) == [some |-> TRUE, value |-> v]

QueueValues == 1..MaxValue

CircularQueue_new(N) ==
    [buffer |-> [i \in 0..(N - 1) |-> NoneT], capacity |-> N, head |-> 0, tail |-> 0]

capacity(q) == q.capacity

len(q) ==
    IF q.tail >= q.head THEN q.tail - q.head
    ELSE q.capacity - q.head + q.tail

is_empty(q) == q.head = q.tail /\ ~q.buffer[q.head].some

is_full(q) == (q.tail + 1) % q.capacity = q.head /\ q.buffer[q.head].some

\* What a call returns: the queue it leaves and its result.
Outcome(q, res, value) == [q |-> q, res |-> res, value |-> value]

Appended(q, value) ==
    [q EXCEPT !.buffer[q.tail] = SomeT(value), !.tail = (q.tail + 1) % q.capacity]

\* push: Err(value) on a full queue.
push(q, value) ==
    IF is_full(q) THEN Outcome(q, "Err", SomeT(value))
    ELSE Outcome(Appended(q, value), "Ok", NoneT)

\* push_overwrite: on a full queue the element at head is taken and
\* returned.
push_overwrite(q, value) ==
    IF is_full(q)
    THEN LET taken == [q EXCEPT !.buffer[q.head] = NoneT,
                                !.head = (q.head + 1) % q.capacity]
         IN  Outcome(Appended(taken, value),
                     IF q.buffer[q.head].some THEN "Some" ELSE "None", q.buffer[q.head])
    ELSE Outcome(Appended(q, value), "None", NoneT)

pop_keeps_head(q) ==
    IF is_empty(q) THEN Outcome(q, "None", NoneT)
    ELSE Outcome([q EXCEPT !.buffer[q.head] = NoneT],
                 IF q.buffer[q.head].some THEN "Some" ELSE "None", q.buffer[q.head])

\* pop: None on an empty queue, else buffer[head].take() and head advances.
pop(q) ==
    IF is_empty(q) THEN Outcome(q, "None", NoneT)
    ELSE Outcome([q EXCEPT !.buffer[q.head] = NoneT, !.head = (q.head + 1) % q.capacity],
                 IF q.buffer[q.head].some THEN "Some" ELSE "None", q.buffer[q.head])

peek(q) == IF is_empty(q) THEN NoneT ELSE q.buffer[q.head]

\* clear: while self.pop().is_some() {}
RECURSIVE clear(_)
clear(q) == IF pop(q).value.some THEN clear(pop(q).q) ELSE pop(q).q

\* get(index), 0 being the head.
get(q, index) ==
    IF index >= len(q) THEN NoneT
    ELSE q.buffer[(q.head + index) % q.capacity]

\* Iter::next from position index: the item and the position after it.
next(q, index) ==
    IF index >= len(q) THEN [item |-> NoneT, index |-> index]
    ELSE [item |-> q.buffer[(q.head + index) % q.capacity], index |-> index + 1]

\* ExactSizeIterator::len at position index (saturating_sub).
iter_len(q, index) == IF len(q) >= index THEN len(q) - index ELSE 0

\* The items a loop over iter() sees from position index until next()
\* returns None, and iter.len() before each of those calls and after the
\* last.
RECURSIVE Items(_, _)
Items(q, index) ==
    IF next(q, index).item.some
    THEN <<next(q, index).item.value>> \o Items(q, next(q, index).index)
    ELSE <<>>

RECURSIVE Lens(_, _)
Lens(q, index) ==
    IF next(q, index).item.some
    THEN <<iter_len(q, index)>> \o Lens(q, next(q, index).index)
    ELSE <<iter_len(q, index)>>

\* A new queue of any N.
InitQueue ==
    /\ phase = "Ready"
    /\ \E N \in 1..MaxN : state = CircularQueue_new(N)
    /\ data_file = zero_data_file
    /\ meta_file = write_meta(DefaultState)
    /\ last = [op |-> "new", res |-> "-", value |-> NoneT, items |-> <<>>, lens |-> <<>>]
    /\ live = <<>>
    /\ incidents = 0

QueueCall(op, out, contents, items, lens) ==
    /\ state' = out.q
    /\ live' = contents
    /\ last' = [op |-> op, res |-> out.res, value |-> out.value,
                items |-> items, lens |-> lens]
    /\ UNCHANGED <<phase, data_file, meta_file, incidents>>

Push(value) ==
    /\ phase = "Ready"
    /\ LET out == push(state, value)
       IN  QueueCall("push", out, IF out.res = "Ok" THEN Append(live, value) ELSE live,
                     <<>>, <<>>)

\* A value handed back comes off the front of the contents.
PushOverwrite(value) ==
    /\ phase = "Ready"
    /\ LET out == push_overwrite(state, value)
       IN  QueueCall("push_overwrite", out,
                     IF out.res = "Some" /\ live # <<>> THEN Append(Tail(live), value)
                     ELSE Append(live, value),
                     <<>>, <<>>)

Pop ==
    /\ phase = "Ready"
    /\ LET out == pop(state)
       IN  QueueCall("pop", out,
                     IF out.res = "Some" /\ live # <<>> THEN Tail(live) ELSE live,
                     <<>>, <<>>)

Clear ==
    /\ phase = "Ready"
    /\ QueueCall("clear", Outcome(clear(state), "-", NoneT), <<>>, <<>>, <<>>)

\* for item in queue.iter(), with iter.len() along the way.
Iterate ==
    /\ phase = "Ready"
    /\ QueueCall("iter", Outcome(state, "-", NoneT), live, Items(state, 0), Lens(state, 0))

Get(index) ==
    /\ phase = "Ready"
    /\ QueueCall("get", Outcome(state, IF get(state, index).some THEN "Some" ELSE "None",
                                get(state, index)),
                 live, <<>>, <<>>)

NextQueue ==
    \/ \E value \in QueueValues : Push(value)
    \/ \E value \in QueueValues : PushOverwrite(value)
    \/ Pop
    \/ Clear
    \/ Iterate
    \/ \E index \in 0..MaxN : Get(index)

SpecQueue == InitQueue /\ [][NextQueue]_vars

----------------------------------------------------------------------------
(* A clean restart: the engine is dropped, which writes nothing, and       *)
(* InfoStorage::new is called on the files as they are.                    *)

Reopen ==
    /\ Ready(1)
    /\ LET r == new(data_file, meta_file)
       IN  Return("new", r, NoSlot, RecoveryPath(LoadedState(meta_file), data_file),
                  load_all(r.state, Last(r.trace).d).slots)

NextReopen ==
    \/ NextOps
    \/ Reopen

\* Successful calls and clean restarts.
SpecReopen == Init /\ [][NextReopen]_vars

----------------------------------------------------------------------------
(* Power loss between the write calls of one enqueue or dequeue.           *)

\* The media between the write calls of a call that would return Ok:
\* before the first one, after each but the last, and with the metadata
\* buffer written up to the end of copy 0.
StepPoints(trace) ==
    LET n == Len(trace)
    IN  {trace[j] : j \in 1..(n - 1)}
        \cup {Media(trace[n].d,
                    [i \in 0..(META_COPIES - 1) |->
                        IF i = 0 THEN trace[n].m[i] ELSE trace[n - 1].m[i]])}

\* Power is lost at such a point of the call that yields r.  What load_all
\* returned before the call and what it would return after it are kept.
Interrupted(op, r) ==
    /\ r.res = "Ok"
    /\ incidents < MaxIncidents
    /\ incidents' = incidents + 1
    /\ \E md \in StepPoints(r.trace) :
         /\ data_file' = md.d
         /\ meta_file' = md.m
    /\ phase' = "Down"
    /\ state' = DefaultState
    /\ last' = [op |-> op, res |-> "Crashed", slot |-> NoSlot, path |-> "-",
                before |-> load_all(state, data_file).slots,
                after |-> load_all(r.state, Last(r.trace).d).slots]
    /\ UNCHANGED live

InterruptEnqueue(info) ==
    /\ Ready(1)
    /\ Interrupted("enqueue", enqueue(state, data_file, meta_file, info))

InterruptDequeue ==
    /\ Ready(1)
    /\ Interrupted("dequeue", dequeue(state, data_file, meta_file))

NextInterrupt ==
    \/ NextFifo
    \/ \E info \in Slots : InterruptEnqueue(info)
    \/ InterruptDequeue
    \/ Open

\* Enqueues and dequeues, power loss between their write calls, reopening.
SpecInterrupt == Init /\ [][NextInterrupt]_vars

----------------------------------------------------------------------------
(* new() on any metadata that decode and any data region.                  *)

\* Every ring state StorageState::from_bytes accepts (head and tail below
\* CAPACITY, count at most CAPACITY), at one generation and next_seq.
AcceptedStates ==
    {[head |-> h, tail |-> t, count |-> c, next_seq |-> STORAGE_CAPACITY, generation |-> 1] :
        h \in Indices, t \in Indices, c \in 0..STORAGE_CAPACITY}

\* Data regions: each slot zero-filled or a record that decodes, under any
\* sequence number below next_seq.
AnyRegions ==
    [Indices -> {ZeroSlot} \cup {EncodeRecord(s, InfoSlot(1, 0, 0)) : s \in Indices}]

\* The engine is down; both metadata copies hold one accepted state.
InitAnyMeta ==
    /\ phase = "Down"
    /\ state = DefaultState
    /\ data_file \in AnyRegions
    /\ \E st \in AcceptedStates : meta_file = write_meta(st)
    /\ last = Called("none", "-", NoSlot, "-")
    /\ live = <<>>
    /\ incidents = 0

NextAnyMeta ==
    \/ Open
    \/ \E info \in Slots : Enqueue(info)
    \/ Dequeue

SpecAnyMeta == InitAnyMeta /\ [][NextAnyMeta]_vars

----------------------------------------------------------------------------
(* The raw-partition backend: peripherals::flash::Flash under              *)
(* data::time_db::TimeDB.  Here data_file is the "tsdb" partition (whether *)
(* it exists, its erase_size, and whether the region after the header      *)
(* sector holds data), meta_file the FlashHEADER stored at offset 0, state *)
(* the Flash value of the open database, and live the max_len of the call  *)
(* that reset the partition last.                                          *)

FLASH_MAGIC == "CUSTOM_FLASH"
SIZE_OF_INFO_SLOT == 4
TSDB_ALIGN == 4096

\* What TimeDB::new is called with, and the erase sizes of the partition.
MaxLens == {0, 100, 683, 1000}
SectorSizes == {1024, 3072, 4096, 8192}

\* align & (align - 1) == 0 for a positive align.
IsPowerOfTwo(align) == \E k \in 0..30 : align = 2 ^ k

\* quick_align: val for align == 0; for a power of two the low bits of
\* val + align - 1 masked out; otherwise val.div_ceil(align) * align.
quick_align(val, align) ==
    IF align = 0 THEN val
    ELSE IF IsPowerOfTwo(align) THEN (val + align - 1) - ((val + align - 1) % align)
    ELSE ((val + align - 1) \div align) * align

FlashHEADER_new(size, sector_size) ==
    [magic |-> FLASH_MAGIC, size |-> size, sector_size |-> sector_size]

\* The header sector of an erased partition: every byte 0xFF.
ErasedHeader == [magic |-> "erased", size |-> -1, sector_size |-> -1]

is_valid(header) == header.magic = FLASH_MAGIC

NoFlash == [size |-> 0, sector_size |-> 0]

\* Flash::touch_header, read telling whether esp_partition_read succeeds.
touch_header(partition, header, read) ==
    IF ~partition.present THEN [res |-> "PointerCastFailed"]
    ELSE IF ~read THEN [res |-> "Unknown"]
    ELSE IF ~is_valid(header) THEN [res |-> "InvalidHeaderMagic"]
    ELSE [res |-> "Ok", header |-> header]

\* What a call of the backend leaves: its result, the Flash value, the
\* header and the data region, and whether esp_partition_erase_range and
\* the header write were carried out.
Opened(res, flash, header, content, erased, rewrote) ==
    [res |-> res, flash |-> flash, header |-> header, content |-> content,
     erased |-> erased, rewrote |-> rewrote]

\* Flash::reset; erase and write tell whether the two calls succeed (a
\* failing one leaves the partition as it was).
Flash_reset(size, partition, header, erase, write) ==
    LET sector_size == partition.erase_size
    IN  IF size = 0 THEN Opened("Unknown", NoFlash, header, partition.content, FALSE, FALSE)
        ELSE IF ~partition.present
        THEN Opened("PointerCastFailed", NoFlash, header, partition.content, FALSE, FALSE)
        ELSE IF size % sector_size # 0
        THEN Opened("NotAligned", NoFlash, header, partition.content, FALSE, FALSE)
        ELSE IF ~erase
        THEN Opened("Unknown", NoFlash, header, partition.content, FALSE, FALSE)
        ELSE IF ~write
        THEN Opened("Unknown", NoFlash, ErasedHeader, "blank", TRUE, FALSE)
        ELSE Opened("Ok", [size |-> size, sector_size |-> sector_size],
                    FlashHEADER_new(size, sector_size), "blank", TRUE, TRUE)

\* A faulty variant of Flash::new that resets on an invalid header only.
Flash_new_ignores_reset(size, reset, partition, header, read, erase, write) ==
    IF size = 0 THEN Opened("Unknown", NoFlash, header, partition.content, FALSE, FALSE)
    ELSE IF ~partition.present
    THEN Opened("PointerCastFailed", NoFlash, header, partition.content, FALSE, FALSE)
    ELSE IF ~read THEN Opened("Unknown", NoFlash, header, partition.content, FALSE, FALSE)
    ELSE IF ~is_valid(header)
    THEN Flash_reset(quick_align(size + partition.erase_size, partition.erase_size),
                     partition, header, erase, write)
    ELSE Opened("Ok", [size |-> header.size, sector_size |-> partition.erase_size],
                header, partition.content, FALSE, FALSE)

\* Flash::new.
Flash_new(size, reset, partition, header, read, erase, write) ==
    IF size = 0 THEN Opened("Unknown", NoFlash, header, partition.content, FALSE, FALSE)
    ELSE IF ~partition.present
    THEN Opened("PointerCastFailed", NoFlash, header, partition.content, FALSE, FALSE)
    ELSE IF ~read THEN Opened("Unknown", NoFlash, header, partition.content, FALSE, FALSE)
    ELSE IF ~is_valid(header) \/ reset
    THEN Flash_reset(quick_align(size + partition.erase_size, partition.erase_size),
                     partition, header, erase, write)
    ELSE Opened("Ok", [size |-> header.size, sector_size |-> partition.erase_size],
                header, partition.content, FALSE, FALSE)

\* slots_size in TimeDB::new: size_of::<InfoSlot>() rounded up to a
\* multiple of 4, plus 4 when it is one already.
slots_size ==
    IF SIZE_OF_INFO_SLOT % 4 # 0 THEN (SIZE_OF_INFO_SLOT - (SIZE_OF_INFO_SLOT % 4)) + 4
    ELSE SIZE_OF_INFO_SLOT + 4

max_size(max_len) == quick_align((max_len * slots_size * 6) \div 5, TSDB_ALIGN)

\* should_reset in TimeDB::new.
should_reset(touched, max_len) ==
    IF touched.res = "Ok"
    THEN touched.header.size - touched.header.sector_size # max_size(max_len)
    ELSE TRUE

\* TimeDB::new up to the Flash value; io tells which calls of the medium
\* succeed.
TimeDB_new(max_len, reset_if_size_incompatible, partition, header, io) ==
    Flash_new(max_size(max_len),
              reset_if_size_incompatible
                /\ should_reset(touch_header(partition, header, io.touch), max_len),
              partition, header, io.read, io.erase, io.write)

\* The medium works, or one of its calls fails.
AllWork == [touch |-> TRUE, read |-> TRUE, erase |-> TRUE, write |-> TRUE]
IoOutcomes ==
    {AllWork, [AllWork EXCEPT !.touch = FALSE], [AllWork EXCEPT !.read = FALSE],
     [AllWork EXCEPT !.erase = FALSE], [AllWork EXCEPT !.write = FALSE]}

\* A partition never written to, at first boot.
InitFlash ==
    /\ phase = "Down"
    /\ state = NoFlash
    /\ \E p \in BOOLEAN, s \in SectorSizes :
         data_file = [present |-> p, erase_size |-> s, content |-> "blank"]
    /\ meta_file = ErasedHeader
    /\ last = [op |-> "none", res |-> "-"]
    /\ live = <<>>
    /\ incidents = 0

\* TimeDB::new(name, max_len, reset_if_size_incompatible) at boot.
TimeDBNew(max_len, reset_if_size_incompatible, io) ==
    /\ phase = "Down"
    /\ io # AllWork => incidents < MaxIncidents
    /\ LET r == TimeDB_new(max_len, reset_if_size_incompatible, data_file, meta_file, io)
       IN  /\ phase' = IF r.res = "Ok" THEN "Ready" ELSE "Down"
           /\ state' = r.flash
           /\ data_file' = [data_file EXCEPT !.content = r.content]
           /\ meta_file' = r.header
           /\ last' = [op |-> "TimeDB::new", res |-> r.res, max_len |-> max_len,
                       reset_if_size_incompatible |-> reset_if_size_incompatible,
                       io |-> io, found |-> meta_file, erased |-> r.erased,
                       rewrote |-> r.rewrote]
           /\ live' = IF r.rewrote THEN <<max_len>>
                      ELSE IF r.erased THEN <<>>
                      ELSE live
    /\ incidents' = IF io = AllWork THEN incidents ELSE incidents + 1

\* TimeDB::insert: a reading is appended after the header sector.
Insert ==
    /\ phase = "Ready"
    /\ data_file.content = "blank"
    /\ data_file' = [data_file EXCEPT !.content = "data"]
    /\ UNCHANGED <<phase, state, meta_file, last, live, incidents>>

\* The node reboots.
Reboot ==
    /\ phase = "Ready"
    /\ phase' = "Down"
    /\ state' = NoFlash
    /\ UNCHANGED <<data_file, meta_file, last, live, incidents>>

NextFlash ==
    \/ \E max_len \in MaxLens, r \in BOOLEAN, io \in IoOutcomes : TimeDBNew(max_len, r, io)
    \/ Insert
    \/ Reboot

SpecFlash == InitFlash /\ [][NextFlash]_vars

----------------------------------------------------------------------------
(* The claims.                                                             *)

LoadAll == load_all(state, data_file)

\* How often x occurs in the sequence q.
Occurrences(q, x) == Cardinality({k \in 1..Len(q) : q[k] = x})

\* The ring index invariant of a StorageState.
IndexConsistent(st) ==
    /\ st.head \in 0..(STORAGE_CAPACITY - 1)
    /\ st.tail \in 0..(STORAGE_CAPACITY - 1)
    /\ st.count \in 0..STORAGE_CAPACITY
    /\ st.tail = (st.head + st.count) % STORAGE_CAPACITY

\* C1: durability across power loss.  When the engine reopens after a power
\* loss, load_all returns every slot that was enqueued with success and not
\* since dequeued, evicted or removed (slots the interrupted call was about
\* to evict or remove are not counted).
C1_DurableAcrossCrash ==
    [][(phase = "Down" /\ phase' = "Ready")
        => \A sl \in Slots :
             Occurrences(live, sl) <= Occurrences(load_all(state', data_file').slots, sl)]_vars

\* C5: on an open engine head and tail are below CAPACITY, count is at most
\* CAPACITY and tail == (head + count) mod CAPACITY.
C5_RingIndexInvariant == phase = "Ready" => IndexConsistent(state)

C5_Witness ==
    /\ phase = "Ready"
    /\ last.op = "persist_all"
    /\ state.count = STORAGE_CAPACITY
    /\ state.head = STORAGE_CAPACITY - 1
    /\ state.tail = state.head

\* The count slots walked from head all decode and their sequence numbers
\* strictly increase along the walk.
WalkDecodes(st, df) == \A k \in 0..(st.count - 1) : Walked(st, df, k).some

WalkAscends(st, df) ==
    \A k \in 1..(st.count - 1) : ULt(Walked(st, df, k - 1).seq, Walked(st, df, k).seq)

\* C2: convergence after an unclean shutdown.  Whatever a power loss and
\* damaged data slots left on the media, an open that returns Ok yields a
\* ring state that is index-consistent, whose count slots from head all
\* decode, with strictly increasing sequence numbers.
C2_ConvergesOnOpen ==
    (phase = "Ready" /\ last.op = "new" /\ last.res = "Ok")
        => /\ IndexConsistent(state)
           /\ WalkDecodes(state, data_file)
           /\ WalkAscends(state, data_file)

\* C3: FIFO with drop-oldest eviction.  An enqueue returns Ok whatever the
\* count; at count == CAPACITY it overwrites the slot at tail (== head),
\* advances head by one and leaves count at CAPACITY; and load_all returns
\* the reference FIFO (the newest CAPACITY slots in enqueue order) with
\* len() its length.
C3_DropOldestFifo ==
    /\ [](phase = "Ready"
            => /\ LoadAll.res = "Ok"
               /\ LoadAll.slots = live
               /\ state.count = Len(live))
    /\ [][(last'.op = "enqueue")
            => /\ last'.res = "Ok"
               /\ state.count = STORAGE_CAPACITY
                    => /\ state.tail = state.head
                       /\ read_record(data_file', state.tail)
                            = SomeRecord(state.next_seq, live'[Len(live')])
                       /\ \A i \in Indices \ {state.tail} : data_file'[i] = data_file[i]
                       /\ state'.head = advance(state.head, 1)
                       /\ state'.count = STORAGE_CAPACITY]_vars

\* More than CAPACITY enqueues and nothing else.
C3_Witness ==
    /\ phase = "Ready"
    /\ last.op = "enqueue"
    /\ state.next_seq = STORAGE_CAPACITY + 2
    /\ state.generation = state.next_seq
    /\ state.count = STORAGE_CAPACITY
    /\ state.head = 2
    /\ Len(live) = STORAGE_CAPACITY

\* C4: dequeue order.  On a non-empty store dequeue returns the slot of the
\* record at head, which is the oldest slot of the reference FIFO, advances
\* head by one, decrements count, bumps generation, and leaves tail == head
\* when count reaches zero.
C4_DequeueOrder ==
    [][(last'.op = "dequeue" /\ state.count > 0)
        => /\ last'.res = "Ok"
           /\ last'.slot = read_record(data_file, state.head).slot
           /\ last'.slot = Head(live)
           /\ state'.head = advance(state.head, 1)
           /\ state'.count = state.count - 1
           /\ state'.generation = wrapping_add1(state.generation)
           /\ state'.next_seq = state.next_seq
           /\ state'.count = 0 => state'.tail = state'.head
           /\ state'.count > 0 => state'.tail = state.tail]_vars

\* A dequeue after an eviction, and one that empties the store.
C4_Witness ==
    /\ phase = "Ready"
    /\ last.op = "dequeue"
    /\ last.res = "Ok"
    /\ state.next_seq = STORAGE_CAPACITY + 1
    /\ state.count = STORAGE_CAPACITY - 1
    /\ state.head = 2

\* C6: the live range.  On an open engine the count slots from head all
\* decode and hold exactly the live slots in FIFO order: load_all returns
\* Ok and the reference FIFO.
C6_LiveRange ==
    phase = "Ready" => (LoadAll.res = "Ok" /\ LoadAll.slots = live)

\* C7: next_seq strictly exceeds the sequence number of every live record.
C7_NextSeqExceedsLive ==
    phase = "Ready"
        => \A k \in 0..(state.count - 1) :
             Walked(state, data_file, k).some
                => ULt(Walked(state, data_file, k).seq, state.next_seq)

\* The steps of the walk from head whose slot does not decode.
DamagedLive(st, df) == {k \in 0..(st.count - 1) : ~Walked(st, df, k).some}

NonDecreasing(q) == \A k \in 1..(Len(q) - 1) : q[k].timestamp <= q[k + 1].timestamp

\* The sequence q without its k-th element.
Without(q, k) == SubSeq(q, 1, k - 1) \o SubSeq(q, k + 1, Len(q))

\* The store the metadata describe was built from the aged store by
\* enqueues alone: every bump of generation assigned one sequence number.
BuiltByEnqueues(st) == st.generation = st.next_seq + WrapLead

\* The engine reopens a store built by enqueues with non-decreasing
\* timestamps in which exactly one live slot stopped decoding.
ReopensOneDamaged ==
    /\ phase = "Down"
    /\ last.op = "corrupt"
    /\ phase' = "Ready"
    /\ BuiltByEnqueues(LoadedState(meta_file))
    /\ LoadedState(meta_file).count = Len(live)
    /\ NonDecreasing(live)
    /\ Cardinality(DamagedLive(LoadedState(meta_file), data_file)) = 1

\* C8: single-slot corruption recovery.  Reopening a store built by
\* enqueues with non-decreasing timestamps, one live slot of which stopped
\* decoding, runs the full recovery, after which load_all returns the other
\* live slots in their original order and count is one less.
C8_RecoversOthersInOrder ==
    [][ReopensOneDamaged
        => LET st0 == LoadedState(meta_file)
               k0 == CHOOSE k \in DamagedLive(st0, data_file) : TRUE
           IN  /\ last'.path = "full"
               /\ load_all(state', data_file').res = "Ok"
               /\ load_all(state', data_file').slots = Without(live, k0 + 1)
               /\ state'.count = st0.count - 1]_vars

\* The last statement of C8: the generation after that reopening is greater
\* than the one before it.
C8_GenerationAdvances ==
    [][ReopensOneDamaged
        => ULt(LoadedState(meta_file).generation, state'.generation)]_vars

\* C9: the empty-store contract.  With count == 0, dequeue returns ReadError
\* and leaves the ring state, the data file and both metadata copies as they
\* were, and load_all returns the empty sequence.
C9_EmptyStore ==
    /\ []((phase = "Ready" /\ state.count = 0)
            => (LoadAll.res = "Ok" /\ LoadAll.slots = <<>>))
    /\ [][(last'.op = "dequeue" /\ state.count = 0)
            => /\ last'.res = "ReadError"
               /\ state' = state
               /\ data_file' = data_file
               /\ meta_file' = meta_file]_vars

\* A dequeue on a store emptied after records were written to it.
C9_Witness ==
    /\ phase = "Ready"
    /\ last.op = "dequeue"
    /\ last.res = "ReadError"
    /\ state.count = 0
    /\ state.next_seq > 0
    /\ read_record(data_file, 0).some

\* C10: enqueue fault atomicity.  When enqueue returns the medium's I/O
\* fault, head, tail, count, next_seq and generation are what they were
\* before the call.
C10_EnqueueFaultAtomic ==
    [][(last'.op = "enqueue" /\ last'.res = "Io") => state' = state]_vars

\* Both metadata copies on the medium are the same bytes and decode to the
\* ring state st.
MetaHolds(mf, st) ==
    /\ \A i \in 0..(META_COPIES - 1) : mf[i] = mf[0]
    /\ from_bytes(mf[0]) = SomeState(st)

\* C11: metadata is persisted before success is reported.  When enqueue,
\* dequeue, clear_storage, clear_range, or an erase_info that removed a
\* record returns Ok, both metadata copies are identical and decode to the
\* in-memory ring state.
C11_MetaPersistedOnSuccess ==
    [][(last'.res = "Ok"
        /\ \/ last'.op \in {"enqueue", "dequeue", "clear_storage", "clear_range"}
           \/ last'.op = "erase_info" /\ state'.count < state.count)
        => MetaHolds(meta_file', state')]_vars

\* An erase_info that removed a record from a store reopened after a power
\* loss.
C11_Witness ==
    /\ phase = "Ready"
    /\ last.op = "erase_info"
    /\ last.res = "Ok"
    /\ incidents = 1
    /\ state.count = 1
    /\ state.head = 0
    /\ MetaHolds(meta_file, state)
    /\ read_record(data_file, 0).some
    /\ ~read_record(data_file, 1).some

\* The calls that need an engine.
PublicOps ==
    {"enqueue", "dequeue", "find_range", "load_all", "load_info", "erase_info",
     "clear_range", "clear_storage", "persist_all", "recover"}

\* C12, the ordering: the engine goes Uninitialized -> Opening ->
\* Recovering -> Ready (and back to Uninitialized when new returns an error
\* or the engine is dropped), and a public call executes on a Ready engine
\* only.
C12_ReadinessOrder ==
    /\ [][phase' # phase
            => <<phase, phase'>> \in {<<"Down", "Opening">>, <<"Opening", "Recovering">>,
                                      <<"Recovering", "Ready">>, <<"Opening", "Down">>,
                                      <<"Recovering", "Down">>, <<"Ready", "Down">>}]_vars
    /\ [][last'.op \in PublicOps => (phase = "Ready" /\ phase' = "Ready")]_vars

\* C12, the faults: when a step of opening or recovery hits an I/O fault,
\* new returns an error and the engine it was building never reaches Ready.
C12_FaultNeverReady ==
    /\ [][(last'.op = "new" /\ incidents' > incidents)
            => (phase' = "Down" /\ last'.res = "Io")]_vars
    /\ [][(phase = "Recovering" /\ phase' = "Ready") => last.res = "Pending"]_vars

\* What the copy at position i decodes to.
Copy(i) == from_bytes(meta_file[i])

\* C13: metadata copy selection.  With both copies valid and of different
\* generations load_meta returns the state of the copy of the higher
\* generation, whichever position holds it; with one valid copy it returns
\* that one; with none it returns None.
C13_MetaSelection ==
    last.op = "load_meta"
        => /\ (Copy(0).some /\ Copy(1).some /\ Copy(0).st.generation # Copy(1).st.generation)
                => /\ last.res = "Some"
                   /\ state = IF Copy(0).st.generation > Copy(1).st.generation
                              THEN Copy(0).st ELSE Copy(1).st
           /\ (Copy(0).some /\ ~Copy(1).some) => (last.res = "Some" /\ state = Copy(0).st)
           /\ (~Copy(0).some /\ Copy(1).some) => (last.res = "Some" /\ state = Copy(1).st)
           /\ (~Copy(0).some /\ ~Copy(1).some) => last.res = "None"

\* The copy of the higher generation is the first of two valid copies that
\* differ in more than their generation.
C13_Witness ==
    /\ last.op = "load_meta"
    /\ last.res = "Some"
    /\ Copy(0).some
    /\ Copy(1).some
    /\ Copy(0).st.generation > Copy(1).st.generation
    /\ Copy(0).st.count # Copy(1).st.count
    /\ state = Copy(0).st

\* The slots of the live records, oldest first: those of the count slots
\* from head.
LiveSlots == [k \in 1..state.count |-> Walked(state, data_file, k - 1).slot]

\* C14: a successful find_range(start_time, end_time) returns exactly the
\* slots of the live records whose timestamp t satisfies start_time <= t <=
\* end_time, both bounds included, oldest first; with start_time > end_time
\* it returns the empty sequence.
C14_FindRangeInclusive ==
    [][\A s, e \in QueryTimes :
         FindRange(s, e) /\ last'.res = "Ok" =>
           LET Within(slot) == s <= slot.timestamp /\ slot.timestamp <= e
           IN  /\ last'.slots = SelectSeq(LiveSlots, Within)
               /\ s > e => last'.slots = <<>>]_vars

\* find_range returned one of two live records, the one on its bound.
C14_Witness ==
    /\ last.op = "find_range"
    /\ last.res = "Ok"
    /\ Len(last.slots) = 1
    /\ state.count = 2
    /\ \E k \in 1..2 : LiveSlots[k].timestamp # last.slots[1].timestamp

\* C15: a successful load_info(timestamp) returns the first live record,
\* scanning from oldest to newest, whose timestamp equals the query, and
\* None if no live record has that timestamp.
C15_LoadInfoFirst ==
    [][\A t \in QueryTimes :
         LoadInfo(t) /\ last'.res = "Ok" =>
           LET Match(slot) == slot.timestamp = t
               hits == SelectSeq(LiveSlots, Match)
           IN  last'.slots = IF hits = <<>> THEN <<>> ELSE <<hits[1]>>]_vars

\* What load_info does return: the newest live record with that timestamp.
C15_LoadInfoNewest ==
    [][\A t \in QueryTimes :
         LoadInfo(t) /\ last'.res = "Ok" =>
           LET Match(slot) == slot.timestamp = t
               hits == SelectSeq(LiveSlots, Match)
           IN  last'.slots = IF hits = <<>> THEN <<>> ELSE <<hits[Len(hits)]>>]_vars

\* C16: after a successful erase_info(t), load_all equals the previous
\* load_all with every record of timestamp t removed and the others in
\* their order, len() is the number of remaining records, and load_info(t)
\* returns None.
C16_EraseInfoRemovesAll ==
    [][\A t \in QueryTimes :
         EraseInfo(t) /\ last'.res = "Ok" =>
           LET Keep(slot) == slot.timestamp # t
               rest == SelectSeq(LiveSlots, Keep)
           IN  /\ load_all(state', data_file') = [res |-> "Ok", slots |-> rest]
               /\ state'.count = Len(rest)
               /\ load_info(state', data_file', t) = [res |-> "Ok", slots |-> <<>>]]_vars

\* erase_info removed two records of one timestamp and kept the record
\* between them.
C16_Witness ==
    /\ last.op = "erase_info"
    /\ last.res = "Ok"
    /\ state.count = 1
    /\ state.generation = 4
    /\ state.next_seq = 2
    /\ LiveSlots[1].timestamp = 2

\* C17: a successful clear_range(start, end) retains exactly the live
\* records whose timestamp is below start or above end, in their order:
\* load_all afterwards is the previous load_all filtered that way, and
\* find_range(start, end) is empty.
C17_ClearRangeKeepsOutside ==
    [][\A s, e \in QueryTimes :
         ClearRange(s, e) /\ last'.res = "Ok" =>
           LET Outside(slot) == slot.timestamp < s \/ slot.timestamp > e
           IN  /\ load_all(state', data_file') =
                    [res |-> "Ok", slots |-> SelectSeq(LiveSlots, Outside)]
               /\ find_range(state', data_file', s, e) =
                    [res |-> "Ok", slots |-> <<>>]]_vars

\* clear_range rewrote the ring and kept the second record written.
C17_Witness ==
    /\ last.op = "clear_range"
    /\ last.res = "Ok"
    /\ state.count = 1
    /\ state.generation = 4
    /\ state.next_seq = 2

\* C18: a clear_storage that returns Ok leaves every physical slot zero-filled (none of them
\* decodes), resets the ring state to the default value (head = tail =
\* count = 0, next_seq = 0, generation = 0) and persists that state to both
\* metadata copies, from any prior state.
C18_ClearStorageResets ==
    [][ClearStorage /\ last'.res = "Ok" =>
         /\ \A i \in Indices :
              data_file'[i] = ZeroSlot /\ ~read_record(data_file', i).some
         /\ state' = [head |-> 0, tail |-> 0, count |-> 0, next_seq |-> 0,
                      generation |-> 0]
         /\ \A i \in 0..(META_COPIES - 1) :
              from_bytes(meta_file'[i]) = SomeState(state')]_vars

\* clear_storage returned on a store that had lost power before.
C18_Witness ==
    /\ last.op = "clear_storage"
    /\ last.res = "Ok"
    /\ incidents = 1
    /\ state = DefaultState
    /\ data_file = zero_data_file

\* C19: find_range, load_all and load_info are pure reads: whether they
\* succeed or fail they leave the in-memory ring state (head, tail, count,
\* next_seq, generation), every data slot and both metadata copies
\* unchanged.
C19_ReadsArePure ==
    [][Reads =>
         /\ state' = state
         /\ \A i \in Indices : data_file'[i] = data_file[i]
         /\ \A i \in 0..(META_COPIES - 1) : meta_file'[i] = meta_file[i]]_vars

\* A read failed on a live slot that an interrupted enqueue left torn.
C19_Witness ==
    /\ last.op \in {"find_range", "load_all", "load_info"}
    /\ last.res = "RecordCorrupted"
    /\ state.count = STORAGE_CAPACITY
    /\ incidents = 1

\* The calls that change the store, new() standing for recovery at open.
MutatingOps == {"enqueue", "dequeue", "erase_info", "clear_range", "clear_storage",
                "recover", "new"}

\* The generation the engine holds when a call starts: the one in memory,
\* and for new() the one load_meta finds.
HeldState == IF phase = "Ready" THEN state ELSE LoadedState(meta_file)

\* The two places that assign StorageState::default(): clear_storage, and
\* full_scan_recovery when no physical slot decodes.
ResetsToDefault ==
    \/ last'.op = "clear_storage"
    \/ /\ last'.op \in {"recover", "new"}
       /\ last'.path = "full"
       /\ \A i \in Indices : ~read_record(data_file, i).some

\* C20 as stated: across successful enqueue, dequeue, erase_info,
\* clear_range, clear_storage and recovery, the generation held in memory
\* and the generation persisted in metadata never decrease.
C20_GenerationMonotone ==
    [][last'.res = "Ok" /\ last'.op \in MutatingOps =>
         /\ state'.generation >= HeldState.generation
         /\ LoadedState(meta_file').generation >= LoadedState(meta_file).generation]_vars

\* C20, amended: the generation in memory and in metadata never decreases
\* across a successful enqueue, dequeue, erase_info, clear_range or
\* recovery that keeps a record or needs no full scan; clear_storage, and a
\* full-scan recovery that finds no record that decodes, put the default
\* state, generation 0, in memory and in both metadata copies.
C20_GenerationMonotoneUntilReset ==
    [][last'.res = "Ok" /\ last'.op \in MutatingOps =>
         IF ResetsToDefault
         THEN /\ state' = DefaultState
              /\ MetaHolds(meta_file', DefaultState)
         ELSE /\ state'.generation >= HeldState.generation
              /\ LoadedState(meta_file').generation >= LoadedState(meta_file).generation]_vars

\* A reopen went through full-scan recovery and kept a record: the
\* generation is past the two or more that had been reached before.
C20_Witness ==
    /\ last.op = "new"
    /\ last.res = "Ok"
    /\ last.path = "full"
    /\ state.count > 0
    /\ state.generation >= 3
    /\ MetaHolds(meta_file, state)

\* The live records' sequence numbers straddle the wrap of the 32-bit
\* counter: along the walk from head one of them is followed by a smaller
\* one.
StraddlesWrap(st, df) ==
    /\ \A k \in 0..(st.count - 1) : Walked(st, df, k).some
    /\ \E k \in 1..(st.count - 1) :
         ULt(Walked(st, df, k).seq, Walked(st, df, k - 1).seq)

\* C21: when the live records' sequence numbers straddle the wrap of
\* next_seq, a successful reopen or recover leaves load_all returning the
\* same records in the same order as before.
C21_WrapTolerated ==
    [][/\ last'.op \in {"recover", "new"}
       /\ last'.res = "Ok"
       /\ StraddlesWrap(HeldState, data_file)
       => load_all(state', data_file') = load_all(HeldState, data_file)]_vars

\* C22: at open a data file of another length than RECORD_SIZE x CAPACITY
\* is recreated and zero-filled to that length, a metadata file of another
\* length than META_RECORD_SIZE x 2 is recreated and zero-filled, and in
\* either case the engine reaches Ready with len() = 0.
C22_LayoutMismatchReinitializes ==
    [][/\ ((LoadState \/ LoadStateRemoveFailed) /\ data_file = BadLength)
            => (/\ data_file' = [i \in Indices |-> ZeroSlot]
                /\ phase' = "Recovering")
       /\ ((LoadState \/ LoadStateRemoveFailed) /\ meta_file = BadLength)
            => (/\ meta_file' = [i \in 0..(META_COPIES - 1) |-> ZeroMeta]
                /\ state' = DefaultState
                /\ phase' = "Recovering")
       /\ (RecoverOnOpen /\ (\/ data_file = [i \in Indices |-> ZeroSlot]
                              \/ (/\ state = DefaultState
                                  /\ meta_file = [i \in 0..(META_COPIES - 1) |-> ZeroMeta])))
            => (/\ phase' = "Ready"
                /\ last'.res = "Ok"
                /\ state'.count = 0)]_vars

\* The engine is Ready and empty over a metadata file that was recreated
\* while the data file, of the right length, still holds a record.
C22_Witness ==
    /\ phase = "Ready"
    /\ last.op = "new"
    /\ last.res = "Ok"
    /\ state.count = 0
    /\ meta_file = write_empty_meta
    /\ \E i \in Indices : read_record(data_file, i).some

\* C23: reading a slot that was last written by write_record(index, seq,
\* slot) returns Some record with the same seq and an equal slot; a slot
\* whose magic or checksum does not match is returned as None, never as an
\* error or a partial record.
C23_RecordRoundTrip ==
    [][\A index \in Indices :
         ReadRecord(index) =>
           /\ live[index].some =>
                /\ last'.res = "Some"
                /\ last'.seq = live[index].seq
                /\ last'.slot = live[index].slot
           /\ LET buf == data_file[index]
                  head == SubSeq(buf, 1, 14)
              IN  (\/ SubSeq(buf, 1, 2) # LeBytes(RECORD_MAGIC, 2)
                   \/ SubSeq(buf, 15, 16) # LeBytes(crc16_ccitt(head), 2))
                    => last'.res = "None" /\ last'.slot = NoSlot]_vars

\* A record with the largest sequence number, the largest timestamp and a
\* negative temperature came back from its slot.
C23_Witness ==
    /\ last.op = "read_record"
    /\ last.res = "Some"
    /\ last.seq = -1
    /\ last.slot = InfoSlot(-1, -1, 255)
    /\ last.index = STORAGE_CAPACITY - 1

\* The number of buffer cells that hold an element.
Occupied(q) == Cardinality({i \in DOMAIN q.buffer : q.buffer[i].some})

\* C24: a queue that holds fewer than N elements accepts a push (so N
\* pushes on a new queue all return Ok); with N elements is_full() is true
\* and push(v) returns Err(v) and leaves the queue unchanged.
C24_AcceptsNPushes ==
    [][\A value \in QueueValues :
         Push(value) =>
           IF Len(live) < capacity(state)
           THEN last'.res = "Ok" /\ Len(live') = Len(live) + 1
           ELSE /\ is_full(state)
                /\ last'.res = "Err"
                /\ last'.value = SomeT(value)
                /\ state' = state]_vars

\* C25: push_overwrite returns None and appends while fewer than N
\* elements are stored; with N elements stored it returns Some(oldest) and
\* the queue then holds the N most recently pushed values, oldest first.
C25_PushOverwriteKeepsNewestN ==
    [][\A value \in QueueValues :
         PushOverwrite(value) =>
           IF Len(live) < capacity(state)
           THEN /\ last'.res = "None"
                /\ live' = Append(live, value)
           ELSE /\ last'.res = "Some"
                /\ last'.value = SomeT(Head(live))
                /\ live' = Append(Tail(live), value)
                /\ Len(live') = capacity(state)]_vars

C27_LengthAccounting ==
    /\ len(state) = Occupied(state)
    /\ len(state) <= capacity(state)
    /\ is_empty(state) <=> len(state) = 0
    /\ last.op = "clear" =>
         is_empty(state) /\ len(state) = 0 /\ pop(state).res = "None"

\* C28: iter() yields exactly the stored elements in push order, its
\* length goes down by one per next(), get(i) is the i-th of them and None
\* for i >= len(), and none of these changes the queue.
C28_IterationInOrder ==
    [][/\ Iterate =>
            /\ last'.items = live
            /\ last'.lens = [k \in 1..(Len(live) + 1) |-> Len(live) + 1 - k]
            /\ state' = state
       /\ \A index \in 0..MaxN :
            Get(index) =>
              /\ last'.value = IF index < Len(live) THEN SomeT(live[index + 1]) ELSE NoneT
              /\ index >= len(state) => last'.value = NoneT
              /\ state' = state]_vars

\* The count slots walked from head all decode, their sequence numbers
\* (as unsigned 32-bit numbers) strictly increase and their timestamps do
\* not decrease.
WalkIsSound(st, df) ==
    /\ \A k \in 0..(st.count - 1) : read_record(df, (st.head + k) % STORAGE_CAPACITY).some
    /\ \A j, k \in 0..(st.count - 1) :
         j < k =>
           LET a == read_record(df, (st.head + j) % STORAGE_CAPACITY)
               b == read_record(df, (st.head + k) % STORAGE_CAPACITY)
           IN  ULt(a.seq, b.seq) /\ a.slot.timestamp <= b.slot.timestamp

\* C29: with count > 0 fast validation succeeds exactly when the count
\* slots from head decode with strictly increasing sequence numbers and
\* non-decreasing timestamps; recovery runs the full scan exactly when it
\* fails, and when it succeeds or count = 0 recovery writes nothing: ring
\* state, generation, data region and metadata stay as they were.
C29_FastValidationDecides ==
    [][last'.op \in {"recover", "new"} /\ last'.res = "Ok" =>
         LET st == HeldState
             ran == full_scan_recovery(st, data_file, meta_file)
         IN  /\ st.count > 0 => (validate_ring(st, data_file) <=> WalkIsSound(st, data_file))
             /\ IF st.count = 0 \/ WalkIsSound(st, data_file)
                THEN /\ state' = st
                     /\ data_file' = data_file
                     /\ meta_file' = meta_file
                ELSE /\ state' = ran.state
                     /\ state' # st
                     /\ data_file' = Last(ran.trace).d
                     /\ meta_file' = Last(ran.trace).m]_vars

\* recover() went through the full scan on a ring with a slot that did
\* not decode, and kept records.
C29_Witness ==
    /\ last.op = "recover"
    /\ last.res = "Ok"
    /\ last.path = "full"
    /\ incidents = 1
    /\ state.count > 0

\* The records of the physical slots that decode, as (seq, slot) pairs.
DecodingSlots(df) == {i \in Indices : read_record(df, i).some}
DecodedRecords(df) ==
    {[seq |-> read_record(df, i).seq, slot |-> read_record(df, i).slot] :
        i \in DecodingSlots(df)}

\* C30: after full_scan_recovery the live records are exactly the records
\* of the physical slots that decoded before the scan, in ascending order
\* of sequence number, next_seq is the largest recovered sequence number
\* plus one and generation is bumped; if no slot decodes the state is
\* reset to the default empty state and persisted.
C30_FullScanResult ==
    [][/\ last'.op \in {"recover", "new"}
       /\ last'.res = "Ok"
       /\ HeldState.count > 0
       /\ ~WalkIsSound(HeldState, data_file)
       => IF DecodingSlots(data_file) = {}
          THEN /\ state' = DefaultState
               /\ MetaHolds(meta_file', DefaultState)
          ELSE LET after == [k \in 1..state'.count |->
                               read_record(data_file', (state'.head + k - 1) % STORAGE_CAPACITY)]
               IN  /\ state'.count = Cardinality(DecodingSlots(data_file))
                   /\ \A k \in 1..state'.count : after[k].some
                   /\ \A r \in DecodedRecords(data_file) :
                        Cardinality({k \in 1..state'.count :
                                       after[k].seq = r.seq /\ after[k].slot = r.slot})
                          = Cardinality({i \in DecodingSlots(data_file) :
                                           /\ read_record(data_file, i).seq = r.seq
                                           /\ read_record(data_file, i).slot = r.slot})
                   /\ \A j, k \in 1..state'.count :
                        j < k => ~ULt(after[k].seq, after[j].seq)
                   /\ \E r \in DecodedRecords(data_file) :
                        /\ state'.next_seq = wrapping_add1(r.seq)
                        /\ \A q \in DecodedRecords(data_file) :
                             q.seq = r.seq \/ ULt(q.seq, r.seq)
                   /\ state'.generation = wrapping_add1(HeldState.generation)
                   /\ MetaHolds(meta_file', state')]_vars

\* A reopen after a power loss went through the full scan and kept two
\* records.
C30_Witness ==
    /\ last.op = "new"
    /\ last.res = "Ok"
    /\ last.path = "full"
    /\ incidents = 1
    /\ state.count = 2
    /\ state.head = 0

\* The layout rewrite_records and full_scan_recovery leave for the records
\* kept, from the ring state st0: head 0, count n, tail n mod CAPACITY,
\* slots 0..n-1 the records kept in order under their sequence numbers,
\* every slot from n on zero-filled, next_seq one past the last record kept
\* (as before when nothing is kept), generation bumped by one.
Compacted(st0, kept, st1, df1) ==
    LET n == Len(kept)
    IN  /\ st1.head = 0
        /\ st1.count = n
        /\ st1.tail = n % STORAGE_CAPACITY
        /\ \A k \in 1..n : read_record(df1, k - 1) = SomeRecord(kept[k].seq, kept[k].slot)
        /\ \A i \in Indices : i >= n => df1[i] = ZeroSlot
        /\ st1.next_seq = IF n = 0 THEN st0.next_seq ELSE wrapping_add1(kept[n].seq)
        /\ st1.generation = wrapping_add1(st0.generation)

\* The live records before a call, as (seq, slot) pairs in ring order.
LiveRecords == scan_ring(HeldState, data_file).records

\* The records that survive a full scan: those of the physical slots that
\* decode, by ascending sequence number.
Survivors == sort_by_seq(Decoded(data_file, 0))

\* clear_range and an erase_info that removed a record leave the compacted
\* layout of the records they retain.
DeletionCompacts ==
    /\ \A s, e \in Timestamps :
         (ClearRange(s, e) /\ last'.res = "Ok") =>
           LET Outside(rec) == rec.slot.timestamp < s \/ rec.slot.timestamp > e
           IN  Compacted(state, SelectSeq(LiveRecords, Outside), state', data_file')
    /\ \A t \in Timestamps :
         (EraseInfo(t) /\ last'.res = "Ok" /\ state'.count < state.count) =>
           LET Other(rec) == rec.slot.timestamp # t
           IN  Compacted(state, SelectSeq(LiveRecords, Other), state', data_file')

RanFullScan == last'.op \in {"recover", "new"} /\ last'.res = "Ok" /\ last'.path = "full"

\* C31 as stated: after a successful clear_range, an erase_info that removed
\* a record, or a full-scan recovery with n surviving records (n = 0
\* included), head == 0, count == n, tail == n mod CAPACITY, slots 0..n-1
\* hold the retained records in order with their sequence numbers, every
\* slot from n on is zero-filled, next_seq is the last retained sequence
\* number plus one and generation is bumped by one.
C31_CompactionLayout ==
    [][/\ DeletionCompacts
       /\ RanFullScan =>
            LET st1 == IF Survivors = <<>> THEN [state' EXCEPT !.next_seq = HeldState.next_seq]
                       ELSE state'
            IN  Compacted(HeldState, Survivors, st1, data_file')]_vars

\* C31, amended: the compacted layout holds after a successful clear_range,
\* an erase_info that removed a record, and a full-scan recovery with at
\* least one surviving record; a full-scan recovery with no surviving
\* record leaves the default state (generation 0, next_seq 0) and does not
\* touch the data region.
C31_CompactionLayoutUnlessEmptyScan ==
    [][/\ DeletionCompacts
       /\ RanFullScan =>
            IF Survivors = <<>>
            THEN state' = DefaultState /\ data_file' = data_file
            ELSE Compacted(HeldState, Survivors, state', data_file')]_vars

\* clear_range kept the newer one of two records of a ring whose head had
\* moved: the record is now in slot 0 under its sequence number 2.
C31_Witness ==
    /\ last.op = "clear_range"
    /\ last.res = "Ok"
    /\ state.count = 1
    /\ state.next_seq = 3
    /\ state.generation = 5
    /\ read_record(data_file, 0).some
    /\ read_record(data_file, 0).seq = 2
    /\ data_file[1] = ZeroSlot

\* C32: erase_info is a no-op when nothing matches.  If no live record has
\* the queried timestamp, erase_info returns Ok and leaves head, tail,
\* count, next_seq, generation, every data slot and both metadata copies
\* unchanged.
C32_EraseInfoNoMatchIsNoOp ==
    [][\A t \in Timestamps :
         (/\ EraseInfo(t)
          /\ \A k \in 0..(state.count - 1) :
               Walked(state, data_file, k).some
                 => Walked(state, data_file, k).slot.timestamp # t)
         => /\ last'.res = "Ok"
            /\ state' = state
            /\ \A i \in Indices : data_file'[i] = data_file[i]
            /\ \A i \in 0..(META_COPIES - 1) : meta_file'[i] = meta_file[i]]_vars

\* erase_info returned on a ring of two records, head moved, that nothing
\* but enqueues and a dequeue had touched: it removed nothing.
C32_Witness ==
    /\ last.op = "erase_info"
    /\ last.res = "Ok"
    /\ state.count = 2
    /\ state.head = 1
    /\ state.next_seq = 3
    /\ state.generation = 4

\* C33: both metadata copies invalid at open.  When the metadata file has
\* the expected length but neither copy decodes, new falls back to the
\* default empty state, runs neither validation nor the full scan, leaves
\* the data region and the metadata as they are and returns a Ready engine
\* with len() == 0, whatever the data region holds.
C33_NoValidMetaOpensEmpty ==
    [][(Open /\ \A i \in 0..(META_COPIES - 1) : ~from_bytes(meta_file[i]).some)
        => /\ last'.res = "Ok"
           /\ phase' = "Ready"
           /\ last'.path = "none"
           /\ state' = [head |-> 0, tail |-> 0, count |-> 0, next_seq |-> 0,
                        generation |-> 0]
           /\ \A i \in Indices : data_file'[i] = data_file[i]
           /\ \A i \in 0..(META_COPIES - 1) : meta_file'[i] = meta_file[i]]_vars

\* The engine reopened empty on metadata of which no copy decodes, with a
\* record that decodes in the data region.
C33_Witness ==
    /\ phase = "Ready"
    /\ last.op = "new"
    /\ last.res = "Ok"
    /\ state.count = 0
    /\ \A i \in 0..(META_COPIES - 1) : ~from_bytes(meta_file[i]).some
    /\ meta_file[0] # ZeroMeta
    /\ read_record(data_file, 0).some

\* The sequence numbers of the live records: those of the count slots
\* walked from head that decode.
LiveSeqs(st, df) ==
    {Walked(st, df, k).seq : k \in {j \in 0..(st.count - 1) : Walked(st, df, j).some}}

\* C34: no resurrection.  A record that a successful dequeue removed from
\* the live set is never live again, also not after a recover or a reopen
\* that takes the full-scan path: where no call is interrupted the only
\* records that decode outside the live range are the dequeued ones, so a
\* successful recovery leaves no record live that was not live before it.
C34_NoResurrection ==
    [][(last'.op \in {"recover", "new"} /\ last'.res = "Ok")
        => LiveSeqs(state', data_file') \subseteq LiveSeqs(HeldState, data_file)]_vars

\* C35: recovery reaches a fixpoint.  Whenever recover, or the recovery run
\* by new, has returned Ok, fast validation of the resulting state
\* succeeds, so a recover repeated at once takes no full scan and writes
\* nothing: ring state, data region and metadata stay as they are.
C35_RecoveryFixpoint ==
    (phase = "Ready" /\ last.op \in {"recover", "new"} /\ last.res = "Ok")
        => /\ validate_ring(state, data_file)
           /\ RecoveryPath(state, data_file) # "full"
           /\ recover_internal(state, data_file, meta_file)
                = Result("Ok", state, <<Media(data_file, meta_file)>>)

\* C36: a clean reopen is the identity on content.  After any history of
\* successful calls, when the engine is dropped without power loss and no
\* byte of either file changes, new() returns Ok and a store whose load_all
\* is the load_all before the engine was dropped.
C36_CleanReopenKeepsContent ==
    [][Reopen
        => /\ last'.res = "Ok"
           /\ load_all(state', data_file') = load_all(state, data_file)]_vars

\* C37: crash atomicity of enqueue and dequeue.  On a store whose live
\* records have non-decreasing timestamps, power lost before the record
\* write, between the record write and the metadata write, or between the
\* two metadata copies of one enqueue or dequeue, followed by a reopen,
\* yields a load_all that is the content before the call or the content
\* after it.
C37_CrashAtomic ==
    [][(Open /\ last.res = "Crashed" /\ NonDecreasing(last.before))
        => /\ last'.res = "Ok"
           /\ load_all(state', data_file')
                \in {[res |-> "Ok", slots |-> last.before],
                     [res |-> "Ok", slots |-> last.after]}]_vars

\* The physical slots of the live range of st.
LiveIndices(st) == {advance(st.head, k) : k \in 0..(st.count - 1)}

\* C38: loaded metadata is index-consistent.  For any metadata copy that
\* passes decode and any data region, the ring state the engine holds once
\* new has returned Ok satisfies tail == (head + count) mod CAPACITY, so
\* an enqueue on a ring that is not full does not write over a live
\* record.
C38_LoadedMetaIndexConsistent ==
    /\ []((phase = "Ready" /\ last.op = "new" /\ last.res = "Ok")
            => state.tail = (state.head + state.count) % STORAGE_CAPACITY)
    /\ [][(last'.op = "enqueue" /\ last'.res = "Ok" /\ state.count < STORAGE_CAPACITY)
            => \A i \in LiveIndices(state) : data_file'[i] = data_file[i]]_vars

\* TimeDB::new got as far as the decision of Flash::new: the expected size
\* is not 0, the partition exists and its header could be read there.
ReachedDecision ==
    /\ last'.op = "TimeDB::new"
    /\ phase = "Down"
    /\ max_size(last'.max_len) # 0
    /\ data_file.present
    /\ last'.io.read

\* C39: the raw-partition backend erases the partition and rewrites the
\* header exactly when the stored header magic is invalid, or
\* reset_if_size_incompatible is set and the header is unreadable or its
\* declared usable size (size minus one sector) differs from the expected
\* size; with a valid header and no reset requested nothing is erased and
\* the size the header declares is used.
C39_FlashResetDecision ==
    [][ReachedDecision =>
         LET unreadable == ~last'.io.touch \/ meta_file.magic # "CUSTOM_FLASH"
             differs == meta_file.size - meta_file.sector_size
                          # ((((last'.max_len * 8 * 6) \div 5) + 4095) \div 4096) * 4096
             resets == \/ meta_file.magic # "CUSTOM_FLASH"
                       \/ /\ last'.reset_if_size_incompatible
                          /\ (unreadable \/ differs)
         IN  /\ last'.erased = (resets /\ last'.io.erase)
             /\ last'.rewrote = (resets /\ last'.io.erase /\ last'.io.write)
             /\ ~resets => /\ last'.res = "Ok"
                           /\ state'.size = meta_file.size
                           /\ meta_file' = meta_file
                           /\ data_file' = data_file]_vars

\* A boot with a valid header of another usable size and the reset
\* requested erased data and rewrote the header.
C39_Witness ==
    /\ last.op = "TimeDB::new"
    /\ last.res = "Ok"
    /\ last.io = AllWork
    /\ last.erased
    /\ last.max_len = 1000
    /\ last.reset_if_size_incompatible
    /\ last.found = [magic |-> "CUSTOM_FLASH", size |-> 8192, sector_size |-> 4096]
    /\ meta_file = [magic |-> "CUSTOM_FLASH", size |-> 16384, sector_size |-> 4096]
    /\ data_file.content = "blank"

\* C40: a reboot does not wipe the flash store.  Once TimeDB::new has reset
\* the partition for some max_len, a later TimeDB::new with the same
\* max_len (the medium working) reads a valid header whose declared usable
\* size is the expected max_size, and erases nothing, whatever the erase
\* size of the partition.
C40_RebootKeepsStore ==
    [][(phase = "Down" /\ last'.op = "TimeDB::new" /\ last'.io = AllWork
        /\ live = <<last'.max_len>>)
        => /\ is_valid(meta_file)
           /\ meta_file.size - meta_file.sector_size = max_size(last'.max_len)
           /\ ~last'.erased
           /\ data_file' = data_file]_vars

====
